---- MODULE Spec2Model ----
(***************************************************************************)
(* WorkspaceManager (workspace/manager.rs) and the persistence helpers it  *)
(* calls (workspace/filesystem.rs): the swappable active pool, the active  *)
(* workspace id, the in-memory registry and the registry file.             *)
(*                                                                         *)
(* Every async method is cut at its await points: one action per stretch   *)
(* of code that runs between two awaits.  A tokio RwLock write guard that  *)
(* is held across an await is a lock field that stays set between actions; *)
(* a guard taken and released inside one stretch only shows as the guard   *)
(* "the lock is free" of that action.                                      *)
(*                                                                         *)
(* Specifications:                                                         *)
(*   Spec         a running process, its callers serialized                *)
(*   SpecSave     save_registry at the grain of its file-system calls      *)
(*   SpecInit     WorkspaceManager::init on every registry file            *)
(*   SpecRebuild  rebuild_registry_from_disk over what creates leave       *)
(*   SpecBoot     process starts (database/setup.rs) and terminations      *)
(*   SpecMigrate  the migration pipeline over legacy settings rows         *)
(*   SpecLife     process starts with the callers' calls between them      *)
(*   SpecConcurrent      calls that overlap, after a fresh start           *)
(*   SpecConcurrentFair  the same under fair scheduling                    *)
(***************************************************************************)
EXTENDS Integers, Sequences, FiniteSets, TLC

\* ------------------------------------------------------------------ bounds
\* Number of UUIDs create_workspace draws over the life of an installation
\* (one fresh UUID each call).
MaxIds == 3
\* Number of UUIDs drawn before the callers of one running process stop
\* calling create_workspace.
MaxCreates == 2
\* Number of per-workspace pools that can exist at a time; the identity of
\* a pool that was closed is used again.
MaxPools == 2
\* Number of caller tasks that can hold a call frame.
NumTasks == 1
\* Number of names in the workspaces root that are not workspace ids.
MaxOther == 1
\* Number of times the process is started.
MaxBoots == 2
\* Number of rows the legacy settings and transcript_settings tables hold
\* together.
MaxRows == 2
\* Number of calls on the manager that run at the same time.
MaxConcurrent == 2

\* ------------------------------------------------------------- value sets
\* Option::None for ids, pools and lock owners.
NONE == 0
\* WorkspaceRegistry / WorkspaceManifest schema version.
RegistryVersion == 1
\* The pool opened by init on global.sqlite.
GlobalPool == 1

Ids == 1..MaxIds
WsPools == (GlobalPool + 1)..(GlobalPool + MaxPools)
Pools == {GlobalPool} \cup WsPools
Tasks == 1..NumTasks
\* The tasks whose calls on the manager overlap.
Callers == 1..MaxConcurrent
Names == {"Default", "Work"}
\* Names of root entries that do not parse as a UUID (workspaces.json,
\* global.sqlite, anything a user put there).
OtherNames == (MaxIds + 1)..(MaxIds + MaxOther)

VARIABLES
    activeDb,    \* active_db: NONE or the pool installed as active
    activeId,    \* active_workspace_id: NONE or a workspace id
    registry,    \* the in-memory WorkspaceRegistry
    globalDb,    \* global_db: the pool the manager was built with
    pools,       \* each pool: its workspace, open or closed, schema run
    locks,       \* write-guard owner of each of the three RwLocks
    wsDisk,      \* {workspaces_root}/{id}/ on disk, per id
    regFile,     \* workspaces.json
    calls,       \* the frame of each task's running call
    nextId,      \* the next UUID create_workspace draws
    legacy,      \* the legacy database file and its backup copy
    globalSettings, \* step 5 has run all its inserts on the global database
    legacyRows,  \* the rows of the legacy settings tables, in SELECT order
    globalRows,  \* the rows of the same tables of the global database
    tmpFile,     \* workspaces.json.tmp
    rootExtra,   \* what else lies in the workspaces root, per name
    boot         \* the process and its startup (database/setup.rs)

vars == <<activeDb, activeId, registry, globalDb, pools, locks, wsDisk,
          regFile, calls, nextId, legacy, globalSettings, legacyRows,
          globalRows, tmpFile, rootExtra, boot>>

legacyVars == <<legacy, globalSettings, legacyRows, globalRows>>

\* What no method of the manager and no step of the pipeline touches: the
\* foreign entries of the root and the startup's own position.  The
\* temporary file of a registry save is followed only where a save is cut
\* at its file-system calls (SaveWrite, SaveRename).
startupVars == <<tmpFile, rootExtra, boot>>

\* ------------------------------------------------------------ data model
DefaultRegistry ==
    [version |-> RegistryVersion, workspaces |-> <<>>, last_active |-> NONE]

WorkspaceEntry(id, name) == [id |-> id, name |-> name, icon |-> NONE]

AbsentFile == [st |-> "absent", reg |-> DefaultRegistry]

\* A file that was opened for writing and not written to its end.
PartialFile == [st |-> "partial", reg |-> DefaultRegistry]

\* A file that cannot be read or is no JSON of a registry.
CorruptFile == [st |-> "corrupt", reg |-> DefaultRegistry]

\* The registries the manager can hold: entries in the order of their
\* creation, any of the ids or none as last_active.
EntryLists ==
    {w \in UNION {[1..n -> {WorkspaceEntry(i, nm) : i \in Ids, nm \in Names}] :
                    n \in 0..MaxIds} :
        \A i, j \in 1..Len(w) : i < j => w[i].id < w[j].id}

Registries ==
    [version : {RegistryVersion}, workspaces : EntryLists,
     last_active : {NONE} \cup Ids]

\* A workspace directory: whether it exists, its manifest.json (absent, cut
\* short by a failed write, or valid), the name a valid manifest holds, and
\* what its db.sqlite holds: "none" (no file yet, or the database that
\* connect_with(create_if_missing) makes of it: no legacy rows either way),
\* "partial" (a copy of the legacy database cut short) or "legacy" (the
\* legacy meeting rows).  config.json is written after the manifest and
\* read by nothing here.
AbsentDir == [dir |-> FALSE, manifest |-> "absent", name |-> "", db |-> "none"]

\* A root entry whose name is no UUID: nothing, a plain file, or a directory
\* with or without a manifest.json.
AbsentEntry == [kind |-> "absent", manifest |-> "absent", name |-> ""]

ExtraEntries ==
    {AbsentEntry, [kind |-> "file", manifest |-> "absent", name |-> ""]}
    \cup {[kind |-> "dir", manifest |-> m, name |-> ""] : m \in {"absent", "partial"}}
    \cup {[kind |-> "dir", manifest |-> "valid", name |-> n] : n \in Names}

\* A column of a legacy row that row.try_get cannot give as the type asked
\* for (NULL, or a value of another type).
Unreadable == "unreadable"

\* SQL NULL, as a bound Option::None is stored.
Null == "null"

\* The natural ids of settings rows.
RowIds == {"s1", "s2"}

\* A row of the legacy settings or transcript_settings table: its id, one
\* of its String columns (provider) and one of its Option<String> columns
\* (groqApiKey); the other columns are read like one of these two.
LegacyRow ==
    [id : RowIds \cup {Unreadable}, provider : {"openai", Unreadable},
     groqApiKey : {"gsk", Unreadable}]

\* The two tables of the global database without rows (each table is the
\* set of its rows), and the two legacy tables without rows.
EmptyTables == [settings |-> {}, transcript_settings |-> {}]

NoLegacyRows == [settings |-> <<>>, transcript_settings |-> <<>>]

\* The rows of a legacy table in the order SELECT * returns them: the ids
\* that can be read are pairwise distinct.
LegacyRowSeqs(n) ==
    {w \in [1..n -> LegacyRow] :
        \A i, j \in 1..n :
            (i < j /\ w[i].id = w[j].id) => w[i].id = Unreadable}

LegacyTables ==
    UNION {UNION {[settings : LegacyRowSeqs(i), transcript_settings : LegacyRowSeqs(j)] :
                    j \in 0..(MaxRows - i)} : i \in 0..MaxRows}

\* The process: down, in a step of initialize_workspace_manager, up (startup
\* returned Ok) or failed (startup returned Err).  starts and migrations
\* count the process starts and the pipeline starts of the installation;
\* branch is the case of the decision tree the current startup took;
\* interrupted tells that the process once ended inside the pipeline;
\* lastSwitch is the id of the last switch_workspace call that returned Ok
\* to the startup or to a caller of the running application.
BootRecord(pc) ==
    [pc |-> pc, starts |-> 0, migrations |-> 0, branch |-> "none",
     interrupted |-> FALSE, error |-> "none", lastSwitch |-> NONE]

\* The frame of a call: the method (and the pipeline that called it), where
\* it stands (for the pipeline also the k of its "Step k/9" log line), its
\* arguments and locals, and its result once it has returned.
IdleFrame ==
    [op |-> "none", outer |-> "none", pc |-> "idle", step |-> 0, ws |-> NONE,
     name |-> "", old |-> NONE, pool |-> NONE, cleanupFailed |-> FALSE,
     result |-> "none",
     pre |-> [db |-> NONE, id |-> NONE, registry |-> DefaultRegistry]]

\* ---------------------------------------------------------- pool wrapper
\* connect_with(create_if_missing, WAL, foreign_keys): a fresh open pool.
PoolOpen(ps, p, id) ==
    [ps EXCEPT ![p] = [ws |-> id, state |-> "open", migrated |-> FALSE]]

\* A pool that is no longer open keeps no workspace and no schema.
ClosedPool == [ws |-> NONE, state |-> "closed", migrated |-> FALSE]

\* DatabaseManager::cleanup: closes the pool when it succeeds.
PoolCleanup(ps, p, ok) ==
    IF ok THEN [ps EXCEPT ![p] = ClosedPool] ELSE ps

\* The last owner of a pool goes out of scope: its connections are closed.
PoolDrop(ps, p) ==
    IF p # NONE /\ ps[p].state = "open"
    THEN [ps EXCEPT ![p] = ClosedPool]
    ELSE ps

OpenWsPools == {p \in WsPools : pools[p].state = "open"}

\* The identity the next opened pool gets.
FreePools == {p \in WsPools : pools[p].state # "open"}

NewPool == CHOOSE p \in FreePools : \A q \in FreePools : p <= q

\* ------------------------------------------------------------- accessors
\* active_pool(): waits while a writer holds active_db, then Ok(pool) or Err.
active_pool ==
    IF locks.active # NONE THEN [st |-> "blocked", pool |-> NONE]
    ELSE IF activeDb = NONE THEN [st |-> "err", pool |-> NONE]
    ELSE [st |-> "ok", pool |-> activeDb]

global_pool == globalDb

active_workspace_id == activeId

list_workspaces == registry.workspaces

last_active_id == registry.last_active

\* check_first_launch: Ok(workspaces.is_empty()).
check_first_launch == list_workspaces = <<>>

\* -------------------------------------------------------------- helpers
\* No call is running: every frame is empty or holds a returned result.
Quiescent ==
    \A t \in Tasks : calls[t].pc \in {"idle", "done"} /\ calls[t].outer = "none"

\* The manager's state when a call was entered (kept in the call's frame).
Snapshot == [db |-> activeDb, id |-> activeId, registry |-> registry]

NoCallInProgress == \A t \in Tasks : calls[t].pc = "idle"

\* ----------------------------------------------------------- filesystem
\* save_registry: the registry is written to workspaces.json.tmp, which is
\* then renamed over workspaces.json.  The rename alone changes
\* workspaces.json, to the whole new content; an error of the write or of
\* the rename leaves it as it was.  Nothing reads workspaces.json.tmp, so
\* what a failed save leaves in it is not part of the state.
save_registry(reg) ==
    {[ok |-> TRUE, file |-> [st |-> "valid", reg |-> reg]],
     [ok |-> FALSE, file |-> regFile]}

\* load_registry: the default registry when workspaces.json does not exist,
\* its content when it can be read and parsed, else Err.
load_registry ==
    IF regFile.st = "absent" THEN [ok |-> TRUE, reg |-> DefaultRegistry]
    ELSE IF regFile.st = "valid" THEN [ok |-> TRUE, reg |-> regFile.reg]
    ELSE [ok |-> FALSE, reg |-> DefaultRegistry]

\* CreateFilesResults with the manifest written without the workspace name.
CreateFilesResults_UnnamedManifest(d, name) ==
    LET made == [d EXCEPT !.dir = TRUE]
        withManifest == [made EXCEPT !.manifest = "valid", !.name = ""]
    IN  {[result |-> "err_dir", disk |-> d],
         [result |-> "err_dir", disk |-> made],
         [result |-> "err_manifest", disk |-> made],
         [result |-> "err_manifest", disk |-> [made EXCEPT !.manifest = "partial"]],
         [result |-> "err_config", disk |-> withManifest],
         [result |-> "ok", disk |-> withManifest]}

\* create_workspace_dir, write_manifest, write_default_config in sequence:
\* the first failure ends the call and leaves what was written before it.
CreateFilesResults(d, name) ==
    LET made == [d EXCEPT !.dir = TRUE]
        withManifest == [made EXCEPT !.manifest = "valid", !.name = name]
    IN  {[result |-> "err_dir", disk |-> d],
         [result |-> "err_dir", disk |-> made],
         [result |-> "err_manifest", disk |-> made],
         [result |-> "err_manifest", disk |-> [made EXCEPT !.manifest = "partial"]],
         [result |-> "err_config", disk |-> withManifest],
         [result |-> "ok", disk |-> withManifest]}

\* ------------------------------------------- step 5 of the pipeline
\* row.try_get(col).unwrap_or_default() for a String column.
unwrap_or_default(v) == IF v = Unreadable THEN "" ELSE v

\* row.try_get(col).ok() for an Option<String> column, bound as NULL.
ok_or_null(v) == IF v = Unreadable THEN Null ELSE v

\* The values bound to the INSERT for one legacy row.
BoundRow(row) ==
    [id |-> unwrap_or_default(row.id),
     provider |-> unwrap_or_default(row.provider),
     groqApiKey |-> ok_or_null(row.groqApiKey)]

\* INSERT OR REPLACE INTO a table keyed by id.
InsertOrReplace(table, row) ==
    {r \in table : r.id # row.id} \cup {row}

\* The loop over the rows of one legacy table.
RECURSIVE InsertRows(_, _)
InsertRows(table, rows) ==
    IF rows = <<>> THEN table
    ELSE InsertRows(InsertOrReplace(table, BoundRow(Head(rows))), Tail(rows))

\* The global tables after the loops over both legacy tables.
PartitionDone ==
    [settings |-> InsertRows(globalRows.settings, legacyRows.settings),
     transcript_settings |->
         InsertRows(globalRows.transcript_settings,
                    legacyRows.transcript_settings)]

\* The global tables when step 5 has returned Err before the end of the
\* second loop: some first rows of settings, or all of them and some first
\* rows of transcript_settings, are inserted.
PartitionCutShort ==
    {[globalRows EXCEPT
        !.settings = InsertRows(@, SubSeq(legacyRows.settings, 1, k))] :
          k \in 0..Len(legacyRows.settings)}
    \cup
    {[PartitionDone EXCEPT
        !.transcript_settings =
            InsertRows(globalRows.transcript_settings,
                       SubSeq(legacyRows.transcript_settings, 1, k))] :
          k \in 0..Len(legacyRows.transcript_settings)}

\* ------------------------------------------- rebuild_registry_from_disk
\* Uuid::parse_str(&folder_name).is_ok(): the names create_workspace draws
\* parse, the other names of the root do not.
IsUuid(n) == n \in Ids

\* fs::read_dir(workspaces_root): each entry with what the scan looks at,
\* its name, path.is_dir(), its manifest.json and the name in it.
RootEntries ==
    {[name |-> i, is_dir |-> TRUE, manifest |-> wsDisk[i].manifest,
      mname |-> wsDisk[i].name] : i \in {j \in Ids : wsDisk[j].dir}}
    \cup {[name |-> n, is_dir |-> rootExtra[n].kind = "dir",
           manifest |-> rootExtra[n].manifest, mname |-> rootExtra[n].name] :
             n \in {m \in OtherNames : rootExtra[m].kind # "absent"}}

\* RebuildCandidates without the test of the folder name.
RebuildCandidates_AnyName ==
    {e \in RootEntries : e.is_dir /\ e.manifest # "absent"}

\* The entries that pass the three `continue` tests: a directory, a UUID
\* name, manifest.json exists.
RebuildCandidates ==
    {e \in RootEntries : e.is_dir /\ IsUuid(e.name) /\ e.manifest # "absent"}

\* read_manifest(&path): Ok pushes an entry with the folder name as id and
\* the manifest's name, Err is logged only.
RebuildEntries ==
    {WorkspaceEntry(e.name, e.mname) :
        e \in {c \in RebuildCandidates : c.manifest = "valid"}}

\* The sequences that hold every element of S once: read_dir yields the
\* entries in an order the file system chooses.
Orderings(S) ==
    {w \in [1..Cardinality(S) -> S] :
        \A i, j \in 1..Cardinality(S) : i # j => w[i] # w[j]}

\* rebuild_registry_from_disk: the registries it can return when the root
\* can be listed (a read_dir error is its only Err).
rebuild_registry_from_disk ==
    {[version |-> 1, workspaces |-> w, last_active |-> NONE] :
        w \in Orderings(RebuildEntries)}

\* ------------------------------------------------------------------ init
Init ==
    /\ activeDb = NONE
    /\ activeId = NONE
    /\ registry = DefaultRegistry
    /\ globalDb = GlobalPool
    /\ pools = [p \in Pools |->
                  IF p = GlobalPool
                  THEN [ws |-> NONE, state |-> "open", migrated |-> TRUE]
                  ELSE ClosedPool]
    /\ locks = [active |-> NONE, id |-> NONE, registry |-> NONE]
    /\ wsDisk = [i \in Ids |-> AbsentDir]
    /\ regFile = AbsentFile
    /\ calls = [t \in Tasks |-> IdleFrame]
    /\ nextId = 1
    /\ legacy \in [db : BOOLEAN, backup : {FALSE}]
    /\ globalSettings = FALSE
    /\ legacyRows = NoLegacyRows
    /\ globalRows = EmptyTables
    /\ tmpFile = AbsentFile
    /\ rootExtra = [n \in OtherNames |-> AbsentEntry]
    /\ boot = BootRecord("up")

\* ------------------------------------------------------ switch_workspace
\* A caller enters switch_workspace(id).
StartSwitch(t, id) ==
    /\ calls[t].pc = "idle"
    /\ calls' = [calls EXCEPT ![t] =
                   [IdleFrame EXCEPT !.op = "switch", !.pc = "sw_take",
                                     !.ws = id, !.pre = Snapshot]]
    /\ UNCHANGED <<activeDb, activeId, registry, globalDb, pools, locks,
                   wsDisk, regFile, nextId>>
    /\ UNCHANGED legacyVars
    /\ UNCHANGED startupVars

\* SwitchTake with the pool left in the cell while it is cleaned up.
SwitchTake_KeepsActive(t) ==
    /\ calls[t].pc = "sw_take"
    /\ locks.active = NONE
    /\ IF activeDb # NONE
       THEN /\ locks' = [locks EXCEPT !.active = t]
            /\ calls' = [calls EXCEPT ![t].old = activeDb, ![t].pc = "sw_cleanup"]
       ELSE /\ calls' = [calls EXCEPT ![t].pc = "sw_resolve"]
            /\ UNCHANGED locks
    /\ UNCHANGED <<activeDb, activeId, registry, globalDb, pools, wsDisk,
                   regFile, nextId>>
    /\ UNCHANGED legacyVars
    /\ UNCHANGED startupVars

\* SwitchTake with the previous pool closed only when the new one replaces it.
SwitchTake_NoClose(t) ==
    /\ calls[t].pc = "sw_take"
    /\ locks.active = NONE
    /\ calls' = [calls EXCEPT ![t].pc = "sw_resolve"]
    /\ UNCHANGED <<activeDb, activeId, registry, globalDb, pools, locks,
                   wsDisk, regFile, nextId>>
    /\ UNCHANGED legacyVars
    /\ UNCHANGED startupVars

\* active_db.write().await; active.take(): the write guard stays held over
\* cleanup().await when there was a pool, and is released at once otherwise.
SwitchTake(t) ==
    /\ calls[t].pc = "sw_take"
    /\ locks.active = NONE
    /\ IF activeDb # NONE
       THEN /\ activeDb' = NONE
            /\ locks' = [locks EXCEPT !.active = t]
            /\ calls' = [calls EXCEPT ![t].old = activeDb, ![t].pc = "sw_cleanup"]
       ELSE /\ calls' = [calls EXCEPT ![t].pc = "sw_resolve"]
            /\ UNCHANGED <<activeDb, locks>>
    /\ UNCHANGED <<activeId, registry, globalDb, pools, wsDisk, regFile, nextId>>
    /\ UNCHANGED legacyVars
    /\ UNCHANGED startupVars

\* SwitchCleanup with the cleanup error returned to the caller.
SwitchCleanup_Propagates(t) ==
    /\ calls[t].pc = "sw_cleanup"
    /\ \E ok \in BOOLEAN :
         /\ pools' = PoolDrop(PoolCleanup(pools, calls[t].old, ok), calls[t].old)
         /\ calls' = [calls EXCEPT
                        ![t].cleanupFailed = ~ok,
                        ![t].result = IF ok THEN "none" ELSE "err_cleanup",
                        ![t].pc = IF ok THEN "sw_resolve" ELSE "done"]
    /\ locks' = [locks EXCEPT !.active = NONE]
    /\ UNCHANGED <<activeDb, activeId, registry, globalDb, wsDisk, regFile,
                   nextId>>
    /\ UNCHANGED legacyVars
    /\ UNCHANGED startupVars

\* db_manager.cleanup().await: an error is logged only; the previous
\* DatabaseManager is dropped and the guard released at the end of the block.
SwitchCleanup(t) ==
    /\ calls[t].pc = "sw_cleanup"
    /\ \E ok \in BOOLEAN :
         /\ pools' = PoolDrop(PoolCleanup(pools, calls[t].old, ok), calls[t].old)
         /\ calls' = [calls EXCEPT ![t].cleanupFailed = ~ok, ![t].pc = "sw_resolve"]
    /\ locks' = [locks EXCEPT !.active = NONE]
    /\ UNCHANGED <<activeDb, activeId, registry, globalDb, wsDisk, regFile, nextId>>
    /\ UNCHANGED legacyVars
    /\ UNCHANGED startupVars

\* SwitchResolve with last_active set before the directory is looked at.
SwitchResolve_RecordsLastActive(t) ==
    /\ calls[t].pc = "sw_resolve"
    /\ registry' = [registry EXCEPT !.last_active = calls[t].ws]
    /\ calls' = [calls EXCEPT
                   ![t].pc = IF wsDisk[calls[t].ws].dir
                                 /\ wsDisk[calls[t].ws].manifest # "absent"
                             THEN "sw_open" ELSE "done",
                   ![t].result = IF ~wsDisk[calls[t].ws].dir THEN "err_dir"
                                 ELSE IF wsDisk[calls[t].ws].manifest = "absent"
                                      THEN "err_manifest"
                                      ELSE "none"]
    /\ UNCHANGED <<activeDb, activeId, globalDb, pools, locks,
                   wsDisk, regFile, nextId>>
    /\ UNCHANGED legacyVars
    /\ UNCHANGED startupVars

\* workspace_dir.exists() and manifest.json exists(), else Err.
SwitchResolve(t) ==
    /\ calls[t].pc = "sw_resolve"
    /\ calls' = [calls EXCEPT
                   ![t].pc = IF wsDisk[calls[t].ws].dir
                                 /\ wsDisk[calls[t].ws].manifest # "absent"
                             THEN "sw_open" ELSE "done",
                   ![t].result = IF ~wsDisk[calls[t].ws].dir THEN "err_dir"
                                 ELSE IF wsDisk[calls[t].ws].manifest = "absent"
                                      THEN "err_manifest"
                                      ELSE "none"]
    /\ UNCHANGED <<activeDb, activeId, registry, globalDb, pools, locks,
                   wsDisk, regFile, nextId>>
    /\ UNCHANGED legacyVars
    /\ UNCHANGED startupVars

\* SqlitePoolOptions::connect_with(...).await on {id}/db.sqlite, which is
\* created empty when it is missing (create_if_missing), else Err.
SwitchOpen(t) ==
    /\ calls[t].pc = "sw_open"
    /\ \/ /\ FreePools # {}
          /\ pools' = PoolOpen(pools, NewPool, calls[t].ws)
          /\ calls' = [calls EXCEPT ![t].pool = NewPool, ![t].pc = "sw_migrate"]
       \/ /\ calls' = [calls EXCEPT ![t].result = "err_connect", ![t].pc = "done"]
          /\ UNCHANGED pools
    /\ UNCHANGED <<activeDb, activeId, registry, globalDb, locks, wsDisk,
                   regFile, nextId>>
    /\ UNCHANGED legacyVars
    /\ UNCHANGED startupVars

\* run_workspace_migrations(&pool).await: on Err the local pool is dropped.
SwitchMigrate(t) ==
    /\ calls[t].pc = "sw_migrate"
    /\ \/ /\ pools' = [pools EXCEPT ![calls[t].pool].migrated = TRUE]
          /\ calls' = [calls EXCEPT ![t].pc = "sw_install"]
       \/ /\ pools' = PoolDrop(pools, calls[t].pool)
          /\ calls' = [calls EXCEPT ![t].result = "err_migration", ![t].pc = "done"]
    /\ UNCHANGED <<activeDb, activeId, registry, globalDb, locks, wsDisk,
                   regFile, nextId>>
    /\ UNCHANGED legacyVars
    /\ UNCHANGED startupVars

\* active_db.write().await; *active = Some(db_manager): a value still in the
\* cell is dropped by the assignment.
SwitchInstall(t) ==
    /\ calls[t].pc = "sw_install"
    /\ locks.active = NONE
    /\ activeDb' = calls[t].pool
    /\ pools' = PoolDrop(pools, activeDb)
    /\ calls' = [calls EXCEPT ![t].pc = "sw_setid"]
    /\ UNCHANGED <<activeId, registry, globalDb, locks, wsDisk, regFile, nextId>>
    /\ UNCHANGED legacyVars
    /\ UNCHANGED startupVars

\* active_workspace_id.write().await; *active_id = Some(workspace_id).
SwitchSetId(t) ==
    /\ calls[t].pc = "sw_setid"
    /\ locks.id = NONE
    /\ activeId' = calls[t].ws
    /\ calls' = [calls EXCEPT ![t].pc = "sw_save"]
    /\ UNCHANGED <<activeDb, registry, globalDb, pools, locks, wsDisk,
                   regFile, nextId>>
    /\ UNCHANGED legacyVars
    /\ UNCHANGED startupVars

\* SwitchSave with the registry saved before last_active is set.
SwitchSave_SavesFirst(t) ==
    /\ calls[t].pc = "sw_save"
    /\ locks.registry = NONE
    /\ registry' = [registry EXCEPT !.last_active = calls[t].ws]
    /\ \E r \in save_registry(registry) :
         /\ regFile' = r.file
         /\ calls' = [calls EXCEPT
                        ![t].result = IF r.ok THEN "ok" ELSE "err_registry",
                        ![t].pc = "done"]
    /\ UNCHANGED <<activeDb, activeId, globalDb, pools, locks, wsDisk, nextId>>
    /\ UNCHANGED legacyVars
    /\ UNCHANGED startupVars

\* registry.write().await; reg.last_active = Some(id); save_registry(..)?
SwitchSave(t) ==
    /\ calls[t].pc = "sw_save"
    /\ locks.registry = NONE
    /\ registry' = [registry EXCEPT !.last_active = calls[t].ws]
    /\ \E r \in save_registry(registry') :
         /\ regFile' = r.file
         /\ calls' = [calls EXCEPT
                        ![t].result = IF r.ok THEN "ok" ELSE "err_registry",
                        ![t].pc = "done"]
    /\ UNCHANGED <<activeDb, activeId, globalDb, pools, locks, wsDisk,
                   nextId>>
    /\ UNCHANGED legacyVars
    /\ UNCHANGED startupVars

\* ------------------------------------------------------ create_workspace
\* A caller enters create_workspace(name); Uuid::new_v4() draws a fresh id.
StartCreate(t, name) ==
    /\ calls[t].pc = "idle"
    /\ nextId <= MaxIds
    /\ nextId' = nextId + 1
    /\ calls' = [calls EXCEPT ![t] =
                   [IdleFrame EXCEPT !.op = "create", !.pc = "cr_files",
                                     !.ws = nextId, !.name = name,
                                     !.pre = Snapshot]]
    /\ UNCHANGED <<activeDb, activeId, registry, globalDb, pools, locks,
                   wsDisk, regFile>>
    /\ UNCHANGED legacyVars
    /\ UNCHANGED startupVars

\* CreateFiles that goes on to the registry after a failed manifest write.
CreateFiles_IgnoresManifestError(t) ==
    /\ calls[t].pc = "cr_files"
    /\ \E r \in CreateFilesResults(wsDisk[calls[t].ws], calls[t].name) :
         /\ wsDisk' = [wsDisk EXCEPT ![calls[t].ws] = r.disk]
         /\ calls' = [calls EXCEPT
                        ![t].pc = IF r.result \in {"ok", "err_manifest"}
                                  THEN "cr_register" ELSE "done",
                        ![t].result = IF r.result \in {"ok", "err_manifest"}
                                      THEN "none" ELSE r.result]
    /\ UNCHANGED <<activeDb, activeId, registry, globalDb, pools, locks,
                   regFile, nextId>>
    /\ UNCHANGED legacyVars
    /\ UNCHANGED startupVars

\* create_workspace_dir, write_manifest, write_default_config (no await).
CreateFiles(t) ==
    /\ calls[t].pc = "cr_files"
    /\ \E r \in CreateFilesResults(wsDisk[calls[t].ws], calls[t].name) :
         /\ wsDisk' = [wsDisk EXCEPT ![calls[t].ws] = r.disk]
         /\ calls' = [calls EXCEPT
                        ![t].pc = IF r.result = "ok" THEN "cr_register" ELSE "done",
                        ![t].result = IF r.result = "ok" THEN "none" ELSE r.result]
    /\ UNCHANGED <<activeDb, activeId, registry, globalDb, pools, locks,
                   regFile, nextId>>
    /\ UNCHANGED legacyVars
    /\ UNCHANGED startupVars

\* CreateRegister that also records the new workspace as last active.
CreateRegister_Activates(t) ==
    /\ calls[t].pc = "cr_register"
    /\ locks.registry = NONE
    /\ registry' = [registry EXCEPT
                      !.workspaces =
                          Append(@, WorkspaceEntry(calls[t].ws, calls[t].name)),
                      !.last_active = calls[t].ws]
    /\ \E r \in save_registry(registry') :
         /\ regFile' = r.file
         /\ calls' = [calls EXCEPT
                        ![t].result = IF r.ok THEN "ok" ELSE "err_registry",
                        ![t].pc = "done"]
    /\ UNCHANGED <<activeDb, activeId, globalDb, pools, locks, wsDisk, nextId>>
    /\ UNCHANGED legacyVars
    /\ UNCHANGED startupVars

\* CreateRegister that puts the new entry first.
CreateRegister_Prepends(t) ==
    /\ calls[t].pc = "cr_register"
    /\ locks.registry = NONE
    /\ registry' = [registry EXCEPT !.workspaces =
                      <<WorkspaceEntry(calls[t].ws, calls[t].name)>> \o @]
    /\ \E r \in save_registry(registry') :
         /\ regFile' = r.file
         /\ calls' = [calls EXCEPT
                        ![t].result = IF r.ok THEN "ok" ELSE "err_registry",
                        ![t].pc = "done"]
    /\ UNCHANGED <<activeDb, activeId, globalDb, pools, locks, wsDisk, nextId>>
    /\ UNCHANGED legacyVars
    /\ UNCHANGED startupVars

\* registry.write().await; reg.workspaces.push(entry); save_registry(..)?
\* CreateRegister that appends to the registry as it was when the call
\* started.
CreateRegister_FromSnapshot(t) ==
    /\ calls[t].pc = "cr_register"
    /\ locks.registry = NONE
    /\ registry' = [calls[t].pre.registry EXCEPT !.workspaces =
                      Append(@, WorkspaceEntry(calls[t].ws, calls[t].name))]
    /\ \E r \in save_registry(registry') :
         /\ regFile' = r.file
         /\ calls' = [calls EXCEPT
                        ![t].result = IF r.ok THEN "ok" ELSE "err_registry",
                        ![t].pc = "done"]
    /\ UNCHANGED <<activeDb, activeId, globalDb, pools, locks, wsDisk,
                   nextId>>
    /\ UNCHANGED legacyVars
    /\ UNCHANGED startupVars

CreateRegister(t) ==
    /\ calls[t].pc = "cr_register"
    /\ locks.registry = NONE
    /\ registry' = [registry EXCEPT !.workspaces =
                      Append(@, WorkspaceEntry(calls[t].ws, calls[t].name))]
    /\ \E r \in save_registry(registry') :
         /\ regFile' = r.file
         /\ calls' = [calls EXCEPT
                        ![t].result = IF r.ok THEN "ok" ELSE "err_registry",
                        ![t].pc = "done"]
    /\ UNCHANGED <<activeDb, activeId, globalDb, pools, locks, wsDisk,
                   nextId>>
    /\ UNCHANGED legacyVars
    /\ UNCHANGED startupVars

\* ------------------------------------------------ close_active_workspace
\* A caller enters close_active_workspace().
StartClose(t) ==
    /\ calls[t].pc = "idle"
    /\ calls' = [calls EXCEPT ![t] =
                   [IdleFrame EXCEPT !.op = "close", !.pc = "cl_take",
                                     !.pre = Snapshot]]
    /\ UNCHANGED <<activeDb, activeId, registry, globalDb, pools, locks,
                   wsDisk, regFile, nextId>>
    /\ UNCHANGED legacyVars
    /\ UNCHANGED startupVars

\* active_db.write().await; active.take(): the guard lives to the end of
\* the function.
CloseTake(t) ==
    /\ calls[t].pc = "cl_take"
    /\ locks.active = NONE
    /\ locks' = [locks EXCEPT !.active = t]
    /\ activeDb' = NONE
    /\ calls' = [calls EXCEPT
                   ![t].old = activeDb,
                   ![t].pc = IF activeDb # NONE THEN "cl_cleanup" ELSE "cl_setid"]
    /\ UNCHANGED <<activeId, registry, globalDb, pools, wsDisk, regFile, nextId>>
    /\ UNCHANGED legacyVars
    /\ UNCHANGED startupVars

\* CloseCleanup whose error return leaves the active-pool guard held.
CloseCleanup_KeepsGuard(t) ==
    /\ calls[t].pc = "cl_cleanup"
    /\ \E ok \in BOOLEAN :
         /\ pools' = PoolDrop(PoolCleanup(pools, calls[t].old, ok), calls[t].old)
         /\ IF ok
            THEN calls' = [calls EXCEPT ![t].pc = "cl_setid"]
            ELSE calls' = [calls EXCEPT ![t].cleanupFailed = TRUE,
                                        ![t].result = "err_cleanup",
                                        ![t].pc = "done"]
    /\ UNCHANGED <<activeDb, activeId, registry, globalDb, locks, wsDisk,
                   regFile, nextId>>
    /\ UNCHANGED legacyVars
    /\ UNCHANGED startupVars

\* db_manager.cleanup().await.map_err(..)?: an error returns at once.
CloseCleanup(t) ==
    /\ calls[t].pc = "cl_cleanup"
    /\ \E ok \in BOOLEAN :
         /\ pools' = PoolDrop(PoolCleanup(pools, calls[t].old, ok), calls[t].old)
         /\ IF ok
            THEN /\ calls' = [calls EXCEPT ![t].pc = "cl_setid"]
                 /\ UNCHANGED locks
            ELSE /\ calls' = [calls EXCEPT ![t].cleanupFailed = TRUE,
                                           ![t].result = "err_cleanup",
                                           ![t].pc = "done"]
                 /\ locks' = [locks EXCEPT !.active = NONE]
    /\ UNCHANGED <<activeDb, activeId, registry, globalDb, wsDisk, regFile, nextId>>
    /\ UNCHANGED legacyVars
    /\ UNCHANGED startupVars

\* active_workspace_id.write().await; *active_id = None; Ok(()).
CloseSetId(t) ==
    /\ calls[t].pc = "cl_setid"
    /\ locks.id = NONE
    /\ activeId' = NONE
    /\ locks' = [locks EXCEPT !.active = NONE]
    /\ calls' = [calls EXCEPT ![t].result = "ok", ![t].pc = "done"]
    /\ UNCHANGED <<activeDb, registry, globalDb, pools, wsDisk, regFile, nextId>>
    /\ UNCHANGED legacyVars
    /\ UNCHANGED startupVars

\* ------------------------------- migrate_existing_database_to_workspace
\* The pipeline is entered with the legacy database present and no
\* workspace in the registry (the caller's test in database/setup.rs).  Here
\* it may be entered whenever that test holds and no call is running, which
\* includes the one place the caller enters it: right after init.
StartMigrate(t) ==
    /\ calls[t].pc = "idle"
    /\ legacy.db
    /\ list_workspaces = <<>>
    /\ nextId <= MaxIds
    /\ calls' = [calls EXCEPT ![t] =
                   [IdleFrame EXCEPT !.op = "migrate", !.pc = "mg_backup",
                                     !.step = 1, !.pre = Snapshot]]
    /\ UNCHANGED <<activeDb, activeId, registry, globalDb, pools, locks,
                   wsDisk, regFile, nextId>>
    /\ UNCHANGED legacyVars
    /\ UNCHANGED startupVars

\* A step that only ends the pipeline when it fails.
MigrateStep(t, from, to, err) ==
    /\ calls[t].op = "migrate"
    /\ calls[t].pc = from
    /\ \/ calls' = [calls EXCEPT ![t].pc = to, ![t].step = @ + 1]
       \/ calls' = [calls EXCEPT ![t].pc = "done", ![t].result = err]

\* MigrateBackup that logs a failed copy and goes on to step 2.
MigrateBackup_IgnoresFailure(t) ==
    /\ calls[t].op = "migrate"
    /\ calls[t].pc = "mg_backup"
    /\ calls' = [calls EXCEPT ![t].pc = "mg_checkpoint", ![t].step = @ + 1]
    /\ \E b \in BOOLEAN : legacy' = [legacy EXCEPT !.backup = b]
    /\ UNCHANGED <<activeDb, activeId, registry, globalDb, pools, locks,
                   wsDisk, regFile, nextId, globalSettings, legacyRows,
                   globalRows>>
    /\ UNCHANGED startupVars

\* Step 1: copy the legacy database, then its WAL and SHM files, to the
\* backup paths.  The step is passed with the complete copy made; it fails
\* with the main copy not made, cut short, or made (a sidecar copy failed).
MigrateBackup(t) ==
    /\ MigrateStep(t, "mg_backup", "mg_checkpoint", "err_backup")
    /\ \/ /\ calls'[t].pc = "done"
          /\ \E b \in BOOLEAN : legacy' = [legacy EXCEPT !.backup = b]
       \/ /\ calls'[t].pc = "mg_checkpoint"
          /\ legacy' = [legacy EXCEPT !.backup = TRUE]
    /\ UNCHANGED <<activeDb, activeId, registry, globalDb, pools, locks,
                   wsDisk, regFile, nextId, globalSettings, legacyRows,
                   globalRows>>
    /\ UNCHANGED startupVars

\* Step 2: a one-connection pool on the legacy file, wal_checkpoint(TRUNCATE),
\* closed again.
MigrateCheckpoint(t) ==
    /\ MigrateStep(t, "mg_checkpoint", "mg_create", "err_checkpoint")
    /\ UNCHANGED <<activeDb, activeId, registry, globalDb, pools, locks,
                   wsDisk, regFile, nextId>>
    /\ UNCHANGED legacyVars
    /\ UNCHANGED startupVars

\* Step 3: workspace_mgr.create_workspace("Default").await?
MigrateCreate(t) ==
    /\ calls[t].op = "migrate"
    /\ calls[t].pc = "mg_create"
    /\ nextId <= MaxIds
    /\ nextId' = nextId + 1
    /\ calls' = [calls EXCEPT ![t] =
                   [IdleFrame EXCEPT !.op = "create", !.outer = "migrate",
                                     !.step = calls[t].step,
                                     !.pc = "cr_files", !.ws = nextId,
                                     !.name = "Default", !.pre = Snapshot]]
    /\ UNCHANGED <<activeDb, activeId, registry, globalDb, pools, locks,
                   wsDisk, regFile>>
    /\ UNCHANGED legacyVars
    /\ UNCHANGED startupVars

\* create_workspace has returned to the pipeline: Ok(default_id) or Err.
MigrateCreated(t) ==
    /\ calls[t].op = "create"
    /\ calls[t].outer = "migrate"
    /\ calls[t].pc = "done"
    /\ calls' = [calls EXCEPT
                   ![t].op = "migrate", ![t].outer = "none",
                   ![t].pc = IF calls[t].result = "ok" THEN "mg_copy" ELSE "done",
                   ![t].step = IF calls[t].result = "ok" THEN @ + 1 ELSE @,
                   ![t].result = IF calls[t].result = "ok" THEN "none"
                                 ELSE calls[t].result]
    /\ UNCHANGED <<activeDb, activeId, registry, globalDb, pools, locks,
                   wsDisk, regFile, nextId>>
    /\ UNCHANGED legacyVars
    /\ UNCHANGED startupVars

\* Step 4: std::fs::copy of the legacy file to {default_id}/db.sqlite; a
\* copy that fails leaves the target as it was or cut short.
MigrateCopy(t) ==
    /\ MigrateStep(t, "mg_copy", "mg_partition", "err_copy")
    /\ \/ /\ calls'[t].pc = "mg_partition"
          /\ wsDisk' = [wsDisk EXCEPT ![calls[t].ws].db = "legacy"]
       \/ /\ calls'[t].pc = "done"
          /\ \E d \in {wsDisk[calls[t].ws].db, "partial"} :
               wsDisk' = [wsDisk EXCEPT ![calls[t].ws].db = d]
    /\ UNCHANGED <<activeDb, activeId, registry, globalDb, pools, locks,
                   regFile, nextId>>
    /\ UNCHANGED legacyVars
    /\ UNCHANGED startupVars

\* MigratePartition that closes the global pool where it closes orig_pool.
MigratePartition_ClosesGlobal(t) ==
    /\ MigrateStep(t, "mg_partition", "mg_clean", "err_partition")
    /\ calls'[t].pc = "mg_clean" => pools[global_pool].state = "open"
    /\ \/ /\ calls'[t].pc = "done"
          /\ globalRows' \in PartitionCutShort
          /\ UNCHANGED <<globalSettings, pools>>
       \/ /\ pools[global_pool].state = "open"
          /\ globalSettings' = TRUE
          /\ globalRows' = PartitionDone
          /\ pools' = PoolCleanup(pools, global_pool, calls'[t].pc = "mg_clean")
    /\ UNCHANGED <<activeDb, activeId, registry, globalDb, locks, wsDisk,
                   regFile, nextId, legacy, legacyRows>>
    /\ UNCHANGED startupVars

\* Step 5: read settings, transcript_settings and licensing from the legacy
\* file and INSERT OR REPLACE them through workspace_mgr.global_pool(); the
\* statements need that pool open, and an Err can come after some inserts
\* (with both loops done: from the licensing rows).
MigratePartition(t) ==
    /\ MigrateStep(t, "mg_partition", "mg_clean", "err_partition")
    /\ calls'[t].pc = "mg_clean" => pools[global_pool].state = "open"
    /\ \/ /\ calls'[t].pc = "done"
          /\ globalRows' \in PartitionCutShort
          /\ UNCHANGED globalSettings
       \/ /\ pools[global_pool].state = "open"
          /\ globalSettings' = TRUE
          /\ globalRows' = PartitionDone
    /\ UNCHANGED <<activeDb, activeId, registry, globalDb, pools, locks,
                   wsDisk, regFile, nextId, legacy, legacyRows>>
    /\ UNCHANGED startupVars

\* Step 6: a one-connection pool on the workspace copy, DROP TABLE IF EXISTS
\* for the global-only tables, closed again.
MigrateClean(t) ==
    /\ MigrateStep(t, "mg_clean", "mg_media", "err_clean")
    /\ UNCHANGED <<activeDb, activeId, registry, globalDb, pools, locks,
                   wsDisk, regFile, nextId>>
    /\ UNCHANGED legacyVars
    /\ UNCHANGED startupVars

\* Step 7: a one-connection pool on the workspace copy (connect_with(..)?),
\* the folder_path scan with its query error defaulted, closed again.
MigrateVerifyMedia(t) ==
    /\ MigrateStep(t, "mg_media", "mg_switch", "err_media")
    /\ UNCHANGED <<activeDb, activeId, registry, globalDb, pools, locks,
                   wsDisk, regFile, nextId>>
    /\ UNCHANGED legacyVars
    /\ UNCHANGED startupVars

\* Step 8: workspace_mgr.switch_workspace(&default_id).await?
MigrateSwitch(t) ==
    /\ calls[t].op = "migrate"
    /\ calls[t].pc = "mg_switch"
    /\ calls' = [calls EXCEPT ![t] =
                   [IdleFrame EXCEPT !.op = "switch", !.outer = "migrate",
                                     !.step = calls[t].step,
                                     !.pc = "sw_take", !.ws = calls[t].ws,
                                     !.name = calls[t].name, !.pre = Snapshot]]
    /\ UNCHANGED <<activeDb, activeId, registry, globalDb, pools, locks,
                   wsDisk, regFile, nextId>>
    /\ UNCHANGED legacyVars
    /\ UNCHANGED startupVars

\* switch_workspace has returned to the pipeline.
MigrateSwitched(t) ==
    /\ calls[t].op = "switch"
    /\ calls[t].outer = "migrate"
    /\ calls[t].pc = "done"
    /\ calls' = [calls EXCEPT
                   ![t].op = "migrate", ![t].outer = "none",
                   ![t].pc = IF calls[t].result = "ok" THEN "mg_verify" ELSE "done",
                   ![t].step = IF calls[t].result = "ok" THEN @ + 1 ELSE @,
                   ![t].result = IF calls[t].result = "ok" THEN "none"
                                 ELSE calls[t].result]
    /\ UNCHANGED <<activeDb, activeId, registry, globalDb, pools, locks,
                   wsDisk, regFile, nextId>>
    /\ UNCHANGED legacyVars
    /\ UNCHANGED startupVars

\* Step 9: active_pool().await?, the two COUNT(*) queries (each with ?), the
\* comparison logged; then Ok(default_id).
MigrateVerify(t) ==
    /\ calls[t].op = "migrate"
    /\ calls[t].pc = "mg_verify"
    /\ \/ /\ active_pool.st = "ok"
          /\ calls' = [calls EXCEPT ![t].pc = "done", ![t].result = "ok"]
       \/ calls' = [calls EXCEPT ![t].pc = "done", ![t].result = "err_verify"]
    /\ UNCHANGED <<activeDb, activeId, registry, globalDb, pools, locks,
                   wsDisk, regFile, nextId>>
    /\ UNCHANGED legacyVars
    /\ UNCHANGED startupVars

\* ------------------------------------- save_registry, call by call
\* save_registry at the grain of its file-system calls, for a process that
\* can end between them.  The frame: op "save", the registry saved is the
\* in-memory one.  Both callers hold the write guard of the registry lock
\* from before the call until it has returned (manager.rs:145-148, 185-191).
\* SaveWrite that opens workspaces.json itself for writing.
SaveWrite_InPlace(t) ==
    /\ calls[t].op = "save"
    /\ calls[t].pc = "sv_write"
    /\ locks.registry = NONE
    /\ \/ /\ regFile' = PartialFile
          /\ locks' = [locks EXCEPT !.registry = t]
          /\ calls' = [calls EXCEPT ![t].pc = "sv_writing"]
       \/ /\ calls' = [calls EXCEPT ![t].pc = "done", ![t].result = "err_registry"]
          /\ UNCHANGED <<regFile, locks>>
    /\ UNCHANGED <<activeDb, activeId, registry, globalDb, pools,
                   wsDisk, tmpFile, nextId, rootExtra, boot>>
    /\ UNCHANGED legacyVars

\* to_string_pretty, then fs::write(&tmp_path, ..) opens the temporary file,
\* truncating what an earlier save left there; else Err.
SaveWrite(t) ==
    /\ calls[t].op = "save"
    /\ calls[t].pc = "sv_write"
    /\ locks.registry = NONE
    /\ \/ /\ tmpFile' = PartialFile
          /\ locks' = [locks EXCEPT !.registry = t]
          /\ calls' = [calls EXCEPT ![t].pc = "sv_writing"]
       \/ /\ calls' = [calls EXCEPT ![t].pc = "done", ![t].result = "err_registry"]
          /\ UNCHANGED <<tmpFile, locks>>
    /\ UNCHANGED <<activeDb, activeId, registry, globalDb, pools,
                   wsDisk, regFile, nextId, rootExtra, boot>>
    /\ UNCHANGED legacyVars

\* fs::write has written the whole JSON text, else Err with the file cut
\* short.
SaveWritten(t) ==
    /\ calls[t].op = "save"
    /\ calls[t].pc = "sv_writing"
    /\ \/ /\ tmpFile' = [st |-> "valid", reg |-> registry]
          /\ calls' = [calls EXCEPT ![t].pc = "sv_rename"]
          /\ UNCHANGED locks
       \/ /\ calls' = [calls EXCEPT ![t].pc = "done", ![t].result = "err_registry"]
          /\ locks' = [locks EXCEPT !.registry = NONE]
          /\ UNCHANGED tmpFile
    /\ UNCHANGED <<activeDb, activeId, registry, globalDb, pools,
                   wsDisk, regFile, nextId, rootExtra, boot>>
    /\ UNCHANGED legacyVars

\* fs::rename(&tmp_path, &registry_path): the temporary file becomes
\* workspaces.json in one step, else Err with both files as they were.
SaveRename(t) ==
    /\ calls[t].op = "save"
    /\ calls[t].pc = "sv_rename"
    /\ \/ /\ regFile' = tmpFile
          /\ tmpFile' = AbsentFile
          /\ calls' = [calls EXCEPT ![t].pc = "done", ![t].result = "ok"]
       \/ /\ calls' = [calls EXCEPT ![t].pc = "done", ![t].result = "err_registry"]
          /\ UNCHANGED <<regFile, tmpFile>>
    /\ locks' = [locks EXCEPT !.registry = NONE]
    /\ UNCHANGED <<activeDb, activeId, registry, globalDb, pools,
                   wsDisk, nextId, rootExtra, boot>>
    /\ UNCHANGED legacyVars

\* -------------------------------------------------- process termination
\* A call of the migration pipeline, or one made by it, is running.
InPipeline ==
    \E t \in Tasks : calls[t].step # 0 /\ calls[t].pc # "done"

\* A switch_workspace call has returned Ok and its frame is still there:
\* a call of the startup or of a caller, or step 8 of a pipeline that is in
\* step 9 or has returned from it.
SwitchReturnedOk(t) ==
    \/ calls[t].op = "switch" /\ calls[t].pc = "done" /\ calls[t].result = "ok"
    \/ calls[t].op = "migrate" /\ calls[t].step = 9

\* The id of the last switch_workspace call that has returned Ok.
LastSwitch ==
    IF \E t \in DOMAIN calls : SwitchReturnedOk(t)
    THEN calls[CHOOSE t \in DOMAIN calls : SwitchReturnedOk(t)].ws
    ELSE boot.lastSwitch

\* The process ends (a crash, a kill, power loss): what it held in memory
\* and its open pools are gone, every file stays as it is.
Crash ==
    /\ boot.pc # "down"
    /\ activeDb' = NONE
    /\ activeId' = NONE
    /\ registry' = DefaultRegistry
    /\ pools' = [p \in Pools |-> ClosedPool]
    /\ locks' = [active |-> NONE, id |-> NONE, registry |-> NONE]
    /\ calls' = [t \in Tasks |-> IdleFrame]
    /\ boot' = [boot EXCEPT !.pc = "down", !.branch = "none", !.error = "none",
                            !.interrupted = @ \/ InPipeline,
                            !.lastSwitch = LastSwitch]
    /\ UNCHANGED <<globalDb, wsDisk, regFile, tmpFile, nextId, rootExtra>>
    /\ UNCHANGED legacyVars

\* ------------------------------------------ initialize_workspace_manager
\* BootInit that takes the default registry when the file cannot be loaded.
BootInit_DefaultsOnError ==
    /\ boot.pc = "down"
    /\ boot.starts < MaxBoots
    /\ \/ /\ \E e \in {"err_root", "err_global"} :
               boot' = [boot EXCEPT !.pc = "failed", !.error = e,
                                    !.starts = @ + 1]
          /\ UNCHANGED <<registry, pools>>
       \/ /\ registry' = load_registry.reg
          /\ pools' = [pools EXCEPT ![GlobalPool] =
                          [ws |-> NONE, state |-> "open", migrated |-> TRUE]]
          /\ boot' = [boot EXCEPT !.pc = "decide", !.starts = @ + 1]
    /\ UNCHANGED <<activeDb, activeId, globalDb, locks, wsDisk, regFile,
                   tmpFile, calls, nextId, rootExtra>>
    /\ UNCHANGED legacyVars

\* WorkspaceManager::init at a process start: create_dir_all of the root,
\* the global pool opened and its schema run, load_registry; each with `?`.
\* On Err the pool opened so far is dropped with the function's locals.
BootInit ==
    /\ boot.pc = "down"
    /\ boot.starts < MaxBoots
    /\ \/ /\ \E e \in {"err_root", "err_global"} :
               boot' = [boot EXCEPT !.pc = "failed", !.error = e,
                                    !.starts = @ + 1]
          /\ UNCHANGED <<registry, pools>>
       \/ /\ ~load_registry.ok
          /\ boot' = [boot EXCEPT !.pc = "failed", !.error = "err_load",
                                  !.starts = @ + 1]
          /\ UNCHANGED <<registry, pools>>
       \/ /\ load_registry.ok
          /\ registry' = load_registry.reg
          /\ pools' = [pools EXCEPT ![GlobalPool] =
                          [ws |-> NONE, state |-> "open", migrated |-> TRUE]]
          /\ boot' = [boot EXCEPT !.pc = "decide", !.starts = @ + 1]
    /\ UNCHANGED <<activeDb, activeId, globalDb, locks, wsDisk, regFile,
                   tmpFile, calls, nextId, rootExtra>>
    /\ UNCHANGED legacyVars

\* The decision tree: the pipeline when the legacy file exists and the
\* registry is empty; else a switch to last_active, or to the first entry,
\* when there are workspaces; else create_workspace("Default").
BootDecide(t) ==
    /\ boot.pc = "decide"
    /\ calls[t].pc = "idle"
    /\ IF legacy.db /\ list_workspaces = <<>>
       THEN /\ calls' = [calls EXCEPT ![t] =
                           [IdleFrame EXCEPT !.op = "migrate", !.pc = "mg_backup",
                                             !.step = 1, !.pre = Snapshot]]
            /\ boot' = [boot EXCEPT !.pc = "migrate", !.branch = "migrate",
                                    !.migrations = @ + 1]
            /\ UNCHANGED nextId
       ELSE IF list_workspaces # <<>>
       THEN /\ calls' = [calls EXCEPT ![t] =
                           [IdleFrame EXCEPT
                              !.op = "switch", !.pc = "sw_take",
                              !.ws = IF last_active_id # NONE
                                     THEN last_active_id
                                     ELSE list_workspaces[1].id,
                              !.pre = Snapshot]]
            /\ boot' = [boot EXCEPT !.pc = "resume", !.branch = "resume"]
            /\ UNCHANGED nextId
       ELSE /\ nextId <= MaxIds
            /\ nextId' = nextId + 1
            /\ calls' = [calls EXCEPT ![t] =
                           [IdleFrame EXCEPT !.op = "create", !.pc = "cr_files",
                                             !.ws = nextId, !.name = "Default",
                                             !.pre = Snapshot]]
            /\ boot' = [boot EXCEPT !.pc = "fresh_create", !.branch = "fresh"]
    /\ UNCHANGED <<activeDb, activeId, registry, globalDb, pools, locks,
                   wsDisk, regFile, tmpFile, rootExtra>>
    /\ UNCHANGED legacyVars

\* BootMigrated that returns the pipeline's error from the startup.
BootMigrated_Propagates(t) ==
    /\ boot.pc = "migrate"
    /\ calls[t].op = "migrate" /\ calls[t].pc = "done"
    /\ boot' = IF calls[t].result = "ok"
               THEN [boot EXCEPT !.pc = "up", !.lastSwitch = LastSwitch]
               ELSE [boot EXCEPT !.pc = "failed", !.error = calls[t].result,
                                 !.lastSwitch = LastSwitch]
    /\ calls' = [calls EXCEPT ![t] = IdleFrame]
    /\ UNCHANGED <<activeDb, activeId, registry, globalDb, pools, locks,
                   wsDisk, regFile, tmpFile, nextId, rootExtra>>
    /\ UNCHANGED legacyVars

\* The pipeline has returned: Ok ends the startup; on Err the fallback
\* create_workspace("Default") is called.
BootMigrated(t) ==
    /\ boot.pc = "migrate"
    /\ calls[t].op = "migrate" /\ calls[t].pc = "done"
    /\ IF calls[t].result = "ok"
       THEN /\ boot' = [boot EXCEPT !.pc = "up", !.lastSwitch = LastSwitch]
            /\ calls' = [calls EXCEPT ![t] = IdleFrame]
            /\ UNCHANGED nextId
       ELSE /\ nextId <= MaxIds
            /\ nextId' = nextId + 1
            /\ calls' = [calls EXCEPT ![t] =
                           [IdleFrame EXCEPT !.op = "create", !.pc = "cr_files",
                                             !.ws = nextId, !.name = "Default",
                                             !.pre = Snapshot]]
            /\ boot' = [boot EXCEPT !.pc = "fallback_create",
                                    !.branch = "fallback",
                                    !.lastSwitch = LastSwitch]
    /\ UNCHANGED <<activeDb, activeId, registry, globalDb, pools, locks,
                   wsDisk, regFile, tmpFile, rootExtra>>
    /\ UNCHANGED legacyVars

\* BootCreated that ends the startup with Ok once the workspace is created.
BootCreated_NoSwitch(t) ==
    /\ boot.pc \in {"fallback_create", "fresh_create"}
    /\ calls[t].op = "create" /\ calls[t].pc = "done"
    /\ calls' = [calls EXCEPT ![t] = IdleFrame]
    /\ boot' = IF calls[t].result = "ok"
               THEN [boot EXCEPT !.pc = "up"]
               ELSE [boot EXCEPT !.pc = "failed", !.error = calls[t].result]
    /\ UNCHANGED <<activeDb, activeId, registry, globalDb, pools, locks,
                   wsDisk, regFile, tmpFile, nextId, rootExtra>>
    /\ UNCHANGED legacyVars

\* create_workspace("Default") has returned to the startup: Ok(id) is
\* followed by switch_workspace(&id), Err ends the startup with Err.
BootCreated(t) ==
    /\ boot.pc \in {"fallback_create", "fresh_create"}
    /\ calls[t].op = "create" /\ calls[t].pc = "done"
    /\ IF calls[t].result = "ok"
       THEN /\ calls' = [calls EXCEPT ![t] =
                           [IdleFrame EXCEPT !.op = "switch", !.pc = "sw_take",
                                             !.ws = calls[t].ws,
                                             !.pre = Snapshot]]
            /\ boot' = [boot EXCEPT !.pc = IF boot.pc = "fresh_create"
                                           THEN "fresh_switch"
                                           ELSE "fallback_switch"]
       ELSE /\ calls' = [calls EXCEPT ![t] = IdleFrame]
            /\ boot' = [boot EXCEPT !.pc = "failed", !.error = calls[t].result]
    /\ UNCHANGED <<activeDb, activeId, registry, globalDb, pools, locks,
                   wsDisk, regFile, tmpFile, nextId, rootExtra>>
    /\ UNCHANGED legacyVars

\* switch_workspace has returned to the startup: Ok ends it with
\* Ok(workspace_mgr), Err with Err.
BootSwitched(t) ==
    /\ boot.pc \in {"resume", "fallback_switch", "fresh_switch"}
    /\ calls[t].op = "switch" /\ calls[t].pc = "done"
    /\ calls' = [calls EXCEPT ![t] = IdleFrame]
    /\ boot' = IF calls[t].result = "ok"
               THEN [boot EXCEPT !.pc = "up", !.lastSwitch = LastSwitch]
               ELSE [boot EXCEPT !.pc = "failed", !.error = calls[t].result]
    /\ UNCHANGED <<activeDb, activeId, registry, globalDb, pools, locks,
                   wsDisk, regFile, tmpFile, nextId, rootExtra>>
    /\ UNCHANGED legacyVars

\* --------------------------------------------------------- environment
\* workspaces.json is deleted or replaced by something that is no registry
\* (by the user, another program, a failing disk).
DamageRegistry ==
    /\ \E f \in {AbsentFile, CorruptFile} :
         /\ f # regFile
         /\ regFile' = f
    /\ UNCHANGED <<activeDb, activeId, registry, globalDb, pools, locks,
                   wsDisk, tmpFile, calls, nextId, rootExtra, boot>>
    /\ UNCHANGED legacyVars

\* ----------------------------------------------------------- the callers
\* The caller takes the result of a finished call.
Return(t) ==
    /\ calls[t].pc = "done"
    /\ calls[t].outer = "none"
    /\ calls' = [calls EXCEPT ![t] = IdleFrame]
    /\ UNCHANGED <<activeDb, activeId, registry, globalDb, pools, locks,
                   wsDisk, regFile, nextId>>
    /\ UNCHANGED legacyVars
    /\ UNCHANGED startupVars

\* A caller of the running application takes the result of a finished
\* call, over the restarts of an installation.
ReturnToCaller(t) ==
    /\ boot.pc = "up"
    /\ calls[t].pc = "done"
    /\ calls[t].outer = "none"
    /\ calls' = [calls EXCEPT ![t] = IdleFrame]
    /\ boot' = [boot EXCEPT !.lastSwitch = LastSwitch]
    /\ UNCHANGED <<activeDb, activeId, registry, globalDb, pools, locks,
                   wsDisk, regFile, tmpFile, nextId, rootExtra>>
    /\ UNCHANGED legacyVars

\* A switch_workspace call is between closing the previous pool and
\* installing the new one.
InSwitchWindow ==
    \E t \in Tasks :
        /\ calls[t].op = "switch"
        /\ calls[t].pc \in {"sw_cleanup", "sw_resolve", "sw_open",
                            "sw_migrate", "sw_install"}

\* ------------------------------------------------------- specification
\* Writers are serialized by their callers (single-writer assumption); the
\* read-only accessors are operators, evaluated in every state a reader can
\* run in.
Next ==
    \E t \in Tasks :
         \/ NoCallInProgress /\ \E id \in Ids : StartSwitch(t, id)
         \/ NoCallInProgress /\ nextId <= MaxCreates
              /\ \E name \in Names : StartCreate(t, name)
         \/ NoCallInProgress /\ StartClose(t)
         \/ NoCallInProgress /\ StartMigrate(t)
         \/ SwitchTake(t)
         \/ SwitchCleanup(t)
         \/ SwitchResolve(t)
         \/ SwitchOpen(t)
         \/ SwitchMigrate(t)
         \/ SwitchInstall(t)
         \/ SwitchSetId(t)
         \/ SwitchSave(t)
         \/ CreateFiles(t)
         \/ CreateRegister(t)
         \/ CloseTake(t)
         \/ CloseCleanup(t)
         \/ CloseSetId(t)
         \/ MigrateBackup(t)
         \/ MigrateCheckpoint(t)
         \/ MigrateCreate(t)
         \/ MigrateCreated(t)
         \/ MigrateCopy(t)
         \/ MigratePartition(t)
         \/ MigrateClean(t)
         \/ MigrateVerifyMedia(t)
         \/ MigrateSwitch(t)
         \/ MigrateSwitched(t)
         \/ MigrateVerify(t)
         \/ Return(t)

Spec == Init /\ [][Next]_vars

\* save_registry alone, from every registry file and every leftover of an
\* earlier save, with the process ending at any point.
InitSave ==
    /\ activeDb = NONE
    /\ activeId = NONE
    /\ registry \in Registries
    /\ globalDb = GlobalPool
    /\ pools = [p \in Pools |->
                  IF p = GlobalPool
                  THEN [ws |-> NONE, state |-> "open", migrated |-> TRUE]
                  ELSE ClosedPool]
    /\ locks = [active |-> NONE, id |-> NONE, registry |-> NONE]
    /\ wsDisk = [i \in Ids |-> AbsentDir]
    /\ regFile \in {AbsentFile} \cup {[st |-> "valid", reg |-> r] : r \in Registries}
    /\ tmpFile \in {AbsentFile, PartialFile}
    /\ calls = [t \in Tasks |->
                  [IdleFrame EXCEPT !.op = "save", !.pc = "sv_write"]]
    /\ nextId = 1
    /\ legacy = [db |-> FALSE, backup |-> FALSE]
    /\ globalSettings = FALSE
    /\ legacyRows = NoLegacyRows
    /\ globalRows = EmptyTables
    /\ rootExtra = [n \in OtherNames |-> AbsentEntry]
    /\ boot = BootRecord("up")

NextSave ==
    \/ \E t \in Tasks :
         \/ SaveWrite(t)
         \/ SaveWritten(t)
         \/ SaveRename(t)
    \/ Crash

SpecSave == InitSave /\ [][NextSave]_vars

\* The registry scan over what create_workspace calls leave on disk, with
\* anything else lying in the root and workspaces.json damaged at any time.
InitRebuild ==
    /\ activeDb = NONE
    /\ activeId = NONE
    /\ registry = DefaultRegistry
    /\ globalDb = GlobalPool
    /\ pools = [p \in Pools |->
                  IF p = GlobalPool
                  THEN [ws |-> NONE, state |-> "open", migrated |-> TRUE]
                  ELSE ClosedPool]
    /\ locks = [active |-> NONE, id |-> NONE, registry |-> NONE]
    /\ wsDisk = [i \in Ids |-> AbsentDir]
    /\ regFile = AbsentFile
    /\ tmpFile = AbsentFile
    /\ calls = [t \in Tasks |-> IdleFrame]
    /\ nextId = 1
    /\ legacy = [db |-> FALSE, backup |-> FALSE]
    /\ globalSettings = FALSE
    /\ legacyRows = NoLegacyRows
    /\ globalRows = EmptyTables
    /\ rootExtra \in [OtherNames -> ExtraEntries]
    /\ boot = BootRecord("up")

NextRebuild ==
    \/ DamageRegistry
    \/ \E t \in Tasks :
         \/ NoCallInProgress /\ nextId <= MaxCreates
              /\ \E name \in Names : StartCreate(t, name)
         \/ CreateFiles(t)
         \/ CreateRegister(t)
         \/ Return(t)

SpecRebuild == InitRebuild /\ [][NextRebuild]_vars

\* The workspace directory of every entry of a registry, as create_workspace
\* left it.
DirsOf(reg) ==
    [i \in Ids |->
        IF \E k \in 1..Len(reg.workspaces) : reg.workspaces[k].id = i
        THEN [dir |-> TRUE, manifest |-> "valid",
              name |-> (CHOOSE e \in {reg.workspaces[k] : k \in 1..Len(reg.workspaces)} :
                          e.id = i).name,
              db |-> "none"]
        ELSE AbsentDir]

\* init alone, at a process start on every registry file: none, one the
\* manager saved, or one that cannot be read or parsed.
InitInit ==
    /\ activeDb = NONE
    /\ activeId = NONE
    /\ registry = DefaultRegistry
    /\ globalDb = GlobalPool
    /\ pools = [p \in Pools |-> ClosedPool]
    /\ locks = [active |-> NONE, id |-> NONE, registry |-> NONE]
    /\ \E r \in Registries :
         /\ regFile \in {AbsentFile, CorruptFile, [st |-> "valid", reg |-> r]}
         /\ wsDisk = DirsOf(r)
    /\ tmpFile = AbsentFile
    /\ calls = [t \in Tasks |-> IdleFrame]
    /\ nextId = 1
    /\ legacy \in [db : BOOLEAN, backup : {FALSE}]
    /\ globalSettings = FALSE
    /\ legacyRows = NoLegacyRows
    /\ globalRows = EmptyTables
    /\ rootExtra = [n \in OtherNames |-> AbsentEntry]
    /\ boot = BootRecord("down")

NextInit == BootInit \/ Crash

SpecInit == InitInit /\ [][NextInit]_vars

\* An installation from its first process start on: startups, each with
\* the calls it makes, and the process ending at any point.
InitBoot ==
    /\ activeDb = NONE
    /\ activeId = NONE
    /\ registry = DefaultRegistry
    /\ globalDb = GlobalPool
    /\ pools = [p \in Pools |-> ClosedPool]
    /\ locks = [active |-> NONE, id |-> NONE, registry |-> NONE]
    /\ wsDisk = [i \in Ids |-> AbsentDir]
    /\ regFile = AbsentFile
    /\ tmpFile = AbsentFile
    /\ calls = [t \in Tasks |-> IdleFrame]
    /\ nextId = 1
    /\ legacy \in [db : BOOLEAN, backup : {FALSE}]
    /\ globalSettings = FALSE
    /\ legacyRows = NoLegacyRows
    /\ globalRows = EmptyTables
    /\ rootExtra = [n \in OtherNames |-> AbsentEntry]
    /\ boot = BootRecord("down")

NextBoot ==
    \/ BootInit
    \/ Crash
    \/ \E t \in Tasks :
         \/ BootDecide(t)
         \/ BootMigrated(t)
         \/ BootCreated(t)
         \/ BootSwitched(t)
         \/ SwitchTake(t)
         \/ SwitchCleanup(t)
         \/ SwitchResolve(t)
         \/ SwitchOpen(t)
         \/ SwitchMigrate(t)
         \/ SwitchInstall(t)
         \/ SwitchSetId(t)
         \/ SwitchSave(t)
         \/ CreateFiles(t)
         \/ CreateRegister(t)
         \/ MigrateBackup(t)
         \/ MigrateCheckpoint(t)
         \/ MigrateCreate(t)
         \/ MigrateCreated(t)
         \/ MigrateCopy(t)
         \/ MigratePartition(t)
         \/ MigrateClean(t)
         \/ MigrateVerifyMedia(t)
         \/ MigrateSwitch(t)
         \/ MigrateSwitched(t)
         \/ MigrateVerify(t)

SpecBoot == InitBoot /\ [][NextBoot]_vars

\* The life of an installation: startups, the calls the callers of the
\* running application make between them (one at a time), and the process
\* ending at any point.
NextLife ==
    \/ BootInit
    \/ Crash
    \/ \E t \in Tasks :
         \/ BootDecide(t)
         \/ BootMigrated(t)
         \/ BootCreated(t)
         \/ BootSwitched(t)
         \/ boot.pc = "up" /\ NoCallInProgress
              /\ \E id \in Ids : StartSwitch(t, id)
         \/ boot.pc = "up" /\ NoCallInProgress
              /\ \E name \in Names : StartCreate(t, name)
         \/ boot.pc = "up" /\ NoCallInProgress /\ StartClose(t)
         \/ SwitchTake(t)
         \/ SwitchCleanup(t)
         \/ SwitchResolve(t)
         \/ SwitchOpen(t)
         \/ SwitchMigrate(t)
         \/ SwitchInstall(t)
         \/ SwitchSetId(t)
         \/ SwitchSave(t)
         \/ CreateFiles(t)
         \/ CreateRegister(t)
         \/ CloseTake(t)
         \/ CloseCleanup(t)
         \/ CloseSetId(t)
         \/ MigrateBackup(t)
         \/ MigrateCheckpoint(t)
         \/ MigrateCreate(t)
         \/ MigrateCreated(t)
         \/ MigrateCopy(t)
         \/ MigratePartition(t)
         \/ MigrateClean(t)
         \/ MigrateVerifyMedia(t)
         \/ MigrateSwitch(t)
         \/ MigrateSwitched(t)
         \/ MigrateVerify(t)
         \/ ReturnToCaller(t)

SpecLife == InitBoot /\ [][NextLife]_vars

\* The pipeline as the startup enters it, right after init, on a legacy
\* database with any rows in its settings tables.  No workspace is active
\* before step 8, so its switch_workspace finds no previous pool to clean up.
InitMigrate ==
    /\ activeDb = NONE
    /\ activeId = NONE
    /\ registry = DefaultRegistry
    /\ globalDb = GlobalPool
    /\ pools = [p \in Pools |->
                  IF p = GlobalPool
                  THEN [ws |-> NONE, state |-> "open", migrated |-> TRUE]
                  ELSE ClosedPool]
    /\ locks = [active |-> NONE, id |-> NONE, registry |-> NONE]
    /\ wsDisk = [i \in Ids |-> AbsentDir]
    /\ regFile = AbsentFile
    /\ tmpFile = AbsentFile
    /\ calls = [t \in Tasks |-> IdleFrame]
    /\ nextId = 1
    /\ legacy = [db |-> TRUE, backup |-> FALSE]
    /\ globalSettings = FALSE
    /\ legacyRows \in LegacyTables
    /\ globalRows = EmptyTables
    /\ rootExtra = [n \in OtherNames |-> AbsentEntry]
    /\ boot = BootRecord("up")

NextMigrate ==
    \E t \in Tasks :
         \/ NoCallInProgress /\ StartMigrate(t)
         \/ MigrateBackup(t)
         \/ MigrateCheckpoint(t)
         \/ MigrateCreate(t)
         \/ CreateFiles(t)
         \/ CreateRegister(t)
         \/ MigrateCreated(t)
         \/ MigrateCopy(t)
         \/ MigratePartition(t)
         \/ MigrateClean(t)
         \/ MigrateVerifyMedia(t)
         \/ MigrateSwitch(t)
         \/ SwitchTake(t)
         \/ SwitchResolve(t)
         \/ SwitchOpen(t)
         \/ SwitchMigrate(t)
         \/ SwitchInstall(t)
         \/ SwitchSetId(t)
         \/ SwitchSave(t)
         \/ MigrateSwitched(t)
         \/ MigrateVerify(t)
         \/ Return(t)

SpecMigrate == InitMigrate /\ [][NextMigrate]_vars

\* ====================================================================
\* Properties
\* ====================================================================

\* C1: in every state a caller can observe, the active pool is set if and
\* only if the active workspace id is set.
C1_PoolIffId == (activeDb # NONE) <=> (activeId # NONE)

\* C2: when switch_workspace(id) returns Ok, active_workspace_id() is id,
\* active_pool() returns the open pool this call opened on id's database,
\* and last_active is id in the in-memory registry and in workspaces.json.
C2_SwitchOkInstalls ==
    \A t \in Tasks :
        (calls[t].op = "switch" /\ calls[t].pc = "done" /\ calls[t].result = "ok")
        => /\ active_workspace_id = calls[t].ws
           /\ active_pool = [st |-> "ok", pool |-> calls[t].pool]
           /\ pools[calls[t].pool].ws = calls[t].ws
           /\ pools[calls[t].pool].state = "open"
           /\ last_active_id = calls[t].ws
           /\ regFile.st = "valid"
           /\ regFile.reg.last_active = calls[t].ws

\* A switch from one active workspace to another one has returned Ok.
C2_Witness ==
    \E t \in Tasks :
        /\ calls[t].op = "switch" /\ calls[t].pc = "done"
        /\ calls[t].result = "ok"
        /\ calls[t].pre.id # NONE /\ calls[t].pre.id # calls[t].ws

\* C3: after close_active_workspace() has returned, whatever its result,
\* active_workspace_id() is none, active_pool() fails and last_active is
\* unchanged.
C3_CloseClearsActive ==
    \A t \in Tasks :
        (calls[t].op = "close" /\ calls[t].pc = "done")
        => /\ active_workspace_id = NONE
           /\ active_pool.st = "err"
           /\ last_active_id = calls[t].pre.registry.last_active

\* C4: while a switch is between closing the previous pool and installing
\* the new one, active_pool() blocks or returns the no-active-workspace
\* error; a pool it returns is open and has its schema.
C4_NoStalePool ==
    /\ InSwitchWindow => active_pool.st \in {"blocked", "err"}
    /\ active_pool.st = "ok"
       => /\ pools[active_pool.pool].state = "open"
          /\ pools[active_pool.pool].migrated

\* A workspace was active, its pool is closed, the new pool is open without
\* its schema yet, and a reader is not blocked.
C4_Witness ==
    \E t \in Tasks :
        /\ calls[t].op = "switch" /\ calls[t].pc = "sw_migrate"
        /\ calls[t].pre.db # NONE
        /\ ~pools[calls[t].pool].migrated
        /\ active_pool.st = "err"

\* C5: a switch to an id without directory or manifest, called while a
\* workspace is active, returns an error and leaves no active workspace:
\* active_pool() fails and no workspace id is reported as active.
C5_FailedSwitchLeavesNoneActive ==
    \A t \in Tasks :
        (/\ calls[t].op = "switch" /\ calls[t].pc = "done"
         /\ calls[t].result \in {"err_dir", "err_manifest"}
         /\ calls[t].pre.db # NONE)
        => /\ active_pool.st = "err"
           /\ active_workspace_id = NONE

C7_CleanupFailureOnlyLogged ==
    \A t \in Tasks :
        (calls[t].op = "switch" /\ calls[t].cleanupFailed)
        => /\ calls[t].result # "err_cleanup"
           /\ calls[t].pc = "done" =>
                /\ calls[t].result \in {"ok", "err_dir", "err_manifest",
                                        "err_connect", "err_migration",
                                        "err_registry"}
                /\ calls[t].result = "err_dir" => ~wsDisk[calls[t].ws].dir
                /\ calls[t].result = "err_manifest"
                   => wsDisk[calls[t].ws].manifest = "absent"
                /\ calls[t].result = "err_connect" => calls[t].pool = NONE
                /\ calls[t].result = "err_migration"
                   => pools[calls[t].pool].state # "open"
                /\ calls[t].result = "err_registry"
                   => activeDb = calls[t].pool
                /\ calls[t].result = "ok"
                   => /\ active_workspace_id = calls[t].ws
                      /\ active_pool = [st |-> "ok", pool |-> calls[t].pool]

\* A switch whose cleanup of the previous pool failed has returned Ok.
C7_Witness ==
    \E t \in Tasks :
        /\ calls[t].op = "switch" /\ calls[t].pc = "done"
        /\ calls[t].cleanupFailed
        /\ calls[t].result = "ok"

\* C8: global_pool() always returns the pool init opened, and that pool is
\* open, whether or not a workspace is active.
C8_GlobalPoolFixed ==
    /\ global_pool = GlobalPool
    /\ pools[GlobalPool] = [ws |-> NONE, state |-> "open", migrated |-> TRUE]

\* The migration pipeline has written through the global pool, has created
\* and activated the Default workspace, and has returned Ok.
C8_Witness ==
    \E t \in Tasks :
        /\ calls[t].op = "migrate" /\ calls[t].pc = "done"
        /\ calls[t].result = "ok"
        /\ globalSettings
        /\ activeDb # NONE

\* C9: during and after create_workspace, succeeding or failing, the active
\* pool, the active workspace id and last_active are what they were when
\* the call was entered.
C9_CreateKeepsActive ==
    \A t \in Tasks :
        calls[t].op = "create"
        => /\ activeDb = calls[t].pre.db
           /\ active_workspace_id = calls[t].pre.id
           /\ last_active_id = calls[t].pre.registry.last_active

\* create_workspace has returned Ok while another workspace was active.
C9_Witness ==
    \E t \in Tasks :
        /\ calls[t].op = "create" /\ calls[t].pc = "done"
        /\ calls[t].result = "ok"
        /\ calls[t].pre.id # NONE /\ calls[t].pre.db # NONE

\* C10: registry ids are pairwise distinct; a create_workspace that returned
\* Ok has appended exactly one entry, with its id and name, at the end; and
\* list_workspaces() lists the entries in creation order.
C10_CreateAppendsOnce ==
    /\ \A i, j \in 1..Len(list_workspaces) :
         i < j => list_workspaces[i].id < list_workspaces[j].id
    /\ \A t \in Tasks :
         (calls[t].op = "create" /\ calls[t].pc = "done" /\ calls[t].result = "ok")
         => list_workspaces =
              Append(calls[t].pre.registry.workspaces,
                     WorkspaceEntry(calls[t].ws, calls[t].name))

\* The second create_workspace has returned Ok.
C10_Witness ==
    \E t \in Tasks :
        /\ calls[t].op = "create" /\ calls[t].pc = "done"
        /\ calls[t].result = "ok"
        /\ Len(list_workspaces) = 2
        /\ list_workspaces[1].name # list_workspaces[2].name

\* C11: every entry of the in-memory registry and of workspaces.json has an
\* id whose directory exists under the workspaces root and holds a
\* manifest.json, also after calls that failed part-way.
C11_EntriesHaveManifest ==
    \A reg \in {registry, regFile.reg} :
        \A i \in 1..Len(reg.workspaces) :
            /\ wsDisk[reg.workspaces[i].id].dir
            /\ wsDisk[reg.workspaces[i].id].manifest # "absent"

\* A workspace is registered in memory and in the file, and a later
\* create_workspace has failed with its manifest cut short.
C11_Witness ==
    \E t \in Tasks :
        /\ calls[t].op = "create" /\ calls[t].pc = "done"
        /\ calls[t].result = "err_manifest"
        /\ wsDisk[calls[t].ws].manifest = "partial"
        /\ Len(list_workspaces) = 1
        /\ Len(regFile.reg.workspaces) = 1

\* C12: whenever no call is in progress, the in-memory registry (entries,
\* order, last_active) is the content of workspaces.json, an absent file
\* counting as the empty default registry.
C12_RegistrySynced ==
    Quiescent => registry = regFile.reg

\* C19: the pipeline goes through its steps 1 to 9 one by one, a step
\* entered only from the step before it, and no step after the first is
\* entered without the complete backup copy of the legacy database.
C19_StepsInOrderAfterBackup ==
    [][\A t \in Tasks :
          /\ calls'[t].step # calls[t].step
             => \/ calls'[t].step = calls[t].step + 1 /\ calls[t].step < 9
                \/ calls'[t].step = 0 /\ calls[t].pc = "done"
          /\ calls'[t].step >= 2 /\ calls'[t].pc # "done" => legacy'.backup
          /\ (calls[t].step # 0 /\ calls'[t].step = calls[t].step + 1)
             => calls[t].result \in {"none", "ok"}]_vars

\* The pipeline is in step 9 with the backup made.
C19_Witness ==
    \E t \in Tasks :
        /\ calls[t].op = "migrate" /\ calls[t].pc = "mg_verify"
        /\ calls[t].step = 9
        /\ legacy.backup

\* C20: a pipeline that was entered with no active workspace and has
\* returned an error of one of its steps 1 to 6 or 8 has left no workspace
\* active.
C20_FailedMigrationLeavesNoneActive ==
    \A t \in Tasks :
        (/\ calls[t].op = "migrate" /\ calls[t].pc = "done"
         /\ calls[t].result # "ok"
         /\ calls[t].step \in {1, 2, 3, 4, 5, 6, 8}
         /\ calls[t].pre.db = NONE /\ calls[t].pre.id = NONE)
        => /\ active_pool.st = "err"
           /\ active_workspace_id = NONE

\* C13: workspaces.json changes only by becoming the complete registry
\* being saved; wherever the process ends inside save_registry, the file is
\* the complete previous one (absent if there was none) or the complete new
\* one, never cut short and never removed.
C13_SaveIsAtomic ==
    [][regFile' # regFile
       => regFile' = [st |-> "valid", reg |-> registry]]_vars

\* The process has ended between the write of the temporary file and the
\* rename: the new registry is complete in workspaces.json.tmp, and
\* workspaces.json still holds another, earlier registry.
C13_Witness ==
    /\ boot.pc = "down"
    /\ tmpFile.st = "valid"
    /\ regFile.st = "valid"
    /\ regFile.reg # tmpFile.reg

\* C14: init fails only when the root directory cannot be made or the
\* global database cannot be opened or set up; with workspaces.json absent,
\* unreadable or unparsable it returns a manager with the empty default
\* registry and no active workspace.
C14_InitToleratesBadRegistry ==
    /\ boot.pc = "failed" => boot.error \in {"err_root", "err_global"}
    /\ (boot.pc = "decide" /\ regFile.st \in {"absent", "corrupt"})
       => /\ registry = DefaultRegistry
          /\ activeDb = NONE
          /\ active_workspace_id = NONE

\* C17: over all process starts of an installation the pipeline is started
\* at most once, and a startup that ends Ok on an installation with a
\* legacy database has started it once.
C17_MigrationStartedOnce ==
    /\ boot.migrations <= 1
    /\ (boot.pc = "up" /\ legacy.db) => boot.migrations = 1

\* C18: when the process has ended inside the pipeline, a later startup
\* that ends Ok without the fallback has an active workspace whose database
\* holds the legacy meeting rows.
C18_CrashTolerantMigration ==
    (boot.pc = "up" /\ boot.interrupted /\ boot.branch # "fallback")
    => /\ active_pool.st = "ok"
       /\ wsDisk[pools[active_pool.pool].ws].db = "legacy"

\* C15 as claimed: the scan returns a registry with version 1, no
\* last_active and exactly one entry for each directory of the root that has
\* a UUID name and contains a manifest.json.
C15_RebuildListsManifestDirs ==
    /\ rebuild_registry_from_disk # {}
    /\ \A r \in rebuild_registry_from_disk :
         /\ r.version = 1
         /\ r.last_active = NONE
         /\ {r.workspaces[k].id : k \in 1..Len(r.workspaces)}
              = {i \in Ids : wsDisk[i].dir /\ wsDisk[i].manifest # "absent"}
         /\ Len(r.workspaces)
              = Cardinality({i \in Ids : wsDisk[i].dir
                                         /\ wsDisk[i].manifest # "absent"})

\* C15 as amended: exactly one entry, with the manifest's name, for each
\* directory with a UUID name whose manifest.json can be read and parsed;
\* everything else in the root, a directory whose manifest is cut short
\* included, yields no entry and no failure.
C15_RebuildListsValidManifests ==
    /\ rebuild_registry_from_disk # {}
    /\ \A r \in rebuild_registry_from_disk :
         /\ r.version = 1
         /\ r.last_active = NONE
         /\ {r.workspaces[k] : k \in 1..Len(r.workspaces)}
              = {WorkspaceEntry(i, wsDisk[i].name) :
                   i \in {j \in Ids : wsDisk[j].dir /\ wsDisk[j].manifest = "valid"}}
         /\ Len(r.workspaces)
              = Cardinality({i \in Ids : wsDisk[i].dir
                                         /\ wsDisk[i].manifest = "valid"})

\* The root holds a workspace directory with a valid manifest, one whose
\* manifest is missing or cut short, and a directory with a valid manifest
\* whose name is no UUID.
C15_Witness ==
    /\ \E i \in Ids : wsDisk[i].dir /\ wsDisk[i].manifest = "valid"
    /\ \E i \in Ids : wsDisk[i].dir /\ wsDisk[i].manifest # "valid"
    /\ \E n \in OtherNames :
         rootExtra[n].kind = "dir" /\ rootExtra[n].manifest = "valid"

\* C16: when every create_workspace call so far has registered its
\* workspace, the (id, name) pairs the scan returns are those of the
\* in-memory registry, whatever workspaces.json holds.
C16_RebuildEqualsRegistry ==
    (\A i \in 1..(nextId - 1) :
        \E k \in 1..Len(list_workspaces) : list_workspaces[k].id = i)
    => \A r \in rebuild_registry_from_disk :
          {<<r.workspaces[k].id, r.workspaces[k].name>> : k \in 1..Len(r.workspaces)}
          = {<<list_workspaces[k].id, list_workspaces[k].name>> :
               k \in 1..Len(list_workspaces)}

\* Two create_workspace calls have returned Ok, workspaces.json has been
\* replaced by something unreadable since, and a foreign directory with a
\* manifest lies in the root.
C16_Witness ==
    /\ \E t \in Tasks :
         /\ calls[t].op = "create" /\ calls[t].pc = "done"
         /\ calls[t].result = "ok"
    /\ Len(list_workspaces) = 2
    /\ nextId = 3
    /\ regFile.st = "corrupt"
    /\ \E n \in OtherNames :
         rootExtra[n].kind = "dir" /\ rootExtra[n].manifest = "valid"

\* C21: step 7 never ends the pipeline: the pipeline never returns with an
\* error while its step number is 7, whatever happens inside the step.
C21_MediaCheckNeverAborts ==
    \A t \in Tasks :
        (calls[t].op = "migrate" /\ calls[t].pc = "done" /\ calls[t].step = 7)
        => calls[t].result = "ok"

\* C22: once step 8 has succeeded the pipeline returns Ok: it never returns
\* with an error while its step number is 9.
C22_VerifyNeverFails ==
    \A t \in Tasks :
        (calls[t].op = "migrate" /\ calls[t].pc = "done" /\ calls[t].step = 9)
        => calls[t].result = "ok"

\* C29: a switch_workspace that fails at the directory or manifest test, at
\* the opening of the pool or at the schema script has left the in-memory
\* registry as it was when the call was entered, and no step of a switch
\* before its registry save changes the registry or workspaces.json.
C29_FailedSwitchKeepsRegistry ==
    [][\A t \in Tasks :
          /\ (/\ calls'[t].op = "switch" /\ calls'[t].pc = "done"
              /\ calls'[t].result \in {"err_dir", "err_manifest",
                                       "err_connect", "err_migration"})
             => /\ registry' = calls'[t].pre.registry
                /\ regFile' = regFile
          /\ (calls[t].op = "switch" /\ calls[t].pc # "sw_save"
              /\ calls'[t].op = "switch")
             => /\ registry' = registry
                /\ regFile' = regFile]_vars

\* A workspace is active and recorded as last active in workspaces.json,
\* and a switch to another workspace has failed at the schema script.
C29_Witness ==
    \E t \in Tasks :
        /\ calls[t].op = "switch" /\ calls[t].pc = "done"
        /\ calls[t].result = "err_migration"
        /\ calls[t].pre.id # NONE /\ calls[t].pre.id # calls[t].ws
        /\ regFile.st = "valid"
        /\ regFile.reg.last_active = calls[t].pre.id

\* C30: after switch_workspace(id) has returned an error, id is not the
\* active workspace (unless it was active when the call was entered) and
\* active_pool() returns no pool of id.
C30_FailedSwitchInstallsNothing ==
    \A t \in Tasks :
        (calls[t].op = "switch" /\ calls[t].pc = "done" /\ calls[t].result # "ok")
        => /\ active_workspace_id = calls[t].ws
              => calls[t].pre.id = calls[t].ws
           /\ active_pool.st = "ok" => pools[active_pool.pool].ws # calls[t].ws

\* C25: when the pipeline has returned an error to the startup, the startup
\* calls create_workspace("Default") for a workspace that does not exist
\* yet and, when that returned Ok(id), switch_workspace(id); it ends with
\* the error of one of these two calls or, when both succeeded, with Ok and
\* the new, empty Default workspace active.
C25_FallbackOnMigrationError ==
    [][\A t \in Tasks :
          /\ (/\ boot.pc = "migrate" /\ boot'.pc \notin {"migrate", "down"}
              /\ calls[t].op = "migrate" /\ calls[t].result # "ok")
             => /\ boot'.pc = "fallback_create"
                /\ calls'[t].op = "create" /\ calls'[t].pc = "cr_files"
                /\ calls'[t].name = "Default"
                /\ wsDisk[calls'[t].ws] = AbsentDir
          /\ (/\ boot.pc = "fallback_create"
              /\ boot'.pc \notin {"fallback_create", "down"}
              /\ calls[t].op = "create")
             => IF calls[t].result = "ok"
                THEN /\ boot'.pc = "fallback_switch"
                     /\ calls'[t].op = "switch" /\ calls'[t].pc = "sw_take"
                     /\ calls'[t].ws = calls[t].ws
                ELSE boot'.pc = "failed" /\ boot'.error = calls[t].result
          /\ (/\ boot.pc = "fallback_switch"
              /\ boot'.pc \notin {"fallback_switch", "down"}
              /\ calls[t].op = "switch")
             => IF calls[t].result = "ok"
                THEN /\ boot'.pc = "up"
                     /\ activeId' = calls[t].ws
                     /\ activeDb' # NONE /\ pools'[activeDb'].ws = calls[t].ws
                     /\ wsDisk'[calls[t].ws].db = "none"
                     /\ \E k \in 1..Len(registry'.workspaces) :
                          registry'.workspaces[k]
                              = WorkspaceEntry(calls[t].ws, "Default")
                ELSE boot'.pc = "failed" /\ boot'.error = calls[t].result]_vars

\* The pipeline has failed after it had copied the legacy database into its
\* Default workspace, and the startup has ended Ok on the fallback one.
C25_Witness ==
    /\ boot.pc = "up"
    /\ boot.branch = "fallback"
    /\ activeId # NONE
    /\ wsDisk[activeId].db = "none"
    /\ \E i \in Ids : i # activeId /\ wsDisk[i].db = "legacy"

\* C27: the fresh-install branch is taken only without a legacy database
\* and with an empty registry (check_first_launch would return true); a
\* startup that ends Ok in it has left exactly one workspace in the
\* registry, named "Default", and that workspace is the active one.
C27_FreshInstallHasOneDefault ==
    /\ boot.branch = "fresh" => ~legacy.db
    /\ \A t \in Tasks :
         (boot.pc = "fresh_create" /\ calls[t].op = "create")
         => calls[t].pre.registry.workspaces = <<>>
    /\ (boot.pc = "up" /\ boot.branch = "fresh")
       => /\ Len(list_workspaces) = 1
          /\ list_workspaces[1].name = "Default"
          /\ ~check_first_launch
          /\ active_workspace_id = list_workspaces[1].id
          /\ active_pool.st = "ok"
          /\ pools[active_pool.pool].ws = list_workspaces[1].id
          /\ pools[active_pool.pool].state = "open"

\* A first start of a fresh install has failed after it had made the
\* directory of its workspace; the second start has ended Ok.
C27_Witness ==
    /\ boot.pc = "up"
    /\ boot.branch = "fresh"
    /\ boot.starts = 2
    /\ \E i \in Ids : wsDisk[i].dir /\ i # activeId

\* C24: once step 5 is passed, each table of the global database holds, for
\* every row of the legacy table, a row with the id, the values that could
\* be read and the defaults for those that could not, and as many rows as
\* the legacy table.
C24_EveryLegacyRowMigrated ==
    (\E t \in Tasks : calls[t].step >= 6)
    => \A tbl \in {"settings", "transcript_settings"} :
          /\ \A k \in 1..Len(legacyRows[tbl]) :
                BoundRow(legacyRows[tbl][k]) \in globalRows[tbl]
          /\ Cardinality(globalRows[tbl]) = Len(legacyRows[tbl])

\* C23: when the pipeline has returned Ok(id), the registry holds the entry
\* (id, "Default"), id is the active workspace with its pool open, the
\* backup copy of the legacy database exists, the database of id holds the
\* legacy meeting rows, and the global database holds every legacy settings
\* row.
C23_MigrationOkPostconditions ==
    \A t \in Tasks :
        (calls[t].op = "migrate" /\ calls[t].pc = "done" /\ calls[t].result = "ok")
        => /\ \E k \in 1..Len(list_workspaces) :
                list_workspaces[k] = WorkspaceEntry(calls[t].ws, "Default")
           /\ active_workspace_id = calls[t].ws
           /\ active_pool.st = "ok"
           /\ pools[active_pool.pool].ws = calls[t].ws
           /\ legacy.backup
           /\ wsDisk[calls[t].ws].db = "legacy"
           /\ \A tbl \in {"settings", "transcript_settings"} :
                \A k \in 1..Len(legacyRows[tbl]) :
                    BoundRow(legacyRows[tbl][k]) \in globalRows[tbl]

\* C26: whenever a startup ends Ok, in whichever branch, active_pool()
\* succeeds and active_workspace_id() is the id of an entry of the registry.
C26_StartupOkHasActiveEntry ==
    [][(boot.pc # "up" /\ boot'.pc = "up")
       => /\ activeDb' # NONE
          /\ locks'.active = NONE
          /\ pools'[activeDb'].state = "open"
          /\ \E k \in 1..Len(registry'.workspaces) :
               registry'.workspaces[k].id = activeId']_vars

\* C28: a startup that finds workspaces in the registry runs no pipeline,
\* also with the legacy database present; it switches to the id of the last
\* switch_workspace that returned Ok, and to the first entry of the registry
\* when the registry has no last_active.
C28_ResumesLastSuccessfulSwitch ==
    \A t \in Tasks :
        boot.pc = "resume"
        => /\ calls[t].op # "migrate" /\ calls[t].step = 0
           /\ (calls[t].op = "switch" /\ boot.lastSwitch # NONE)
              => calls[t].ws = boot.lastSwitch
           /\ (calls[t].op = "switch"
               /\ calls[t].pre.registry.last_active = NONE)
              => calls[t].ws = calls[t].pre.registry.workspaces[1].id

\* C31: in every reachable state the last_active of the registry, in memory
\* and in workspaces.json, is none or the id of an entry of that registry,
\* also after switch_workspace was called with the id of a directory that
\* has a manifest and no entry.
C31_LastActiveIsAnEntry ==
    /\ registry.last_active # NONE
       => \E k \in 1..Len(registry.workspaces) :
            registry.workspaces[k].id = registry.last_active
    /\ (regFile.st = "valid" /\ regFile.reg.last_active # NONE)
       => \E k \in 1..Len(regFile.reg.workspaces) :
            regFile.reg.workspaces[k].id = regFile.reg.last_active

\* --------------------------------------------------- overlapping callers
\* The four accessors that take a read guard, and the lock each one reads.
Readers ==
    {"active_pool", "active_workspace_id", "list_workspaces", "last_active_id"}

ReadLockOf(op) ==
    CASE op = "active_pool" -> locks.active
      [] op = "active_workspace_id" -> locks.id
      [] OTHER -> locks.registry

StartRead(t, op) ==
    /\ calls[t].pc = "idle"
    /\ calls' = [calls EXCEPT ![t] =
                   [IdleFrame EXCEPT !.op = op, !.pc = "rd_lock"]]
    /\ UNCHANGED <<activeDb, activeId, registry, globalDb, pools, locks,
                   wsDisk, regFile, nextId>>
    /\ UNCHANGED legacyVars
    /\ UNCHANGED startupVars

\* x.read().await; the value is cloned and the guard dropped in the same
\* stretch: the accessor waits while a writer holds the lock.
ReadLocked(t) ==
    /\ calls[t].pc = "rd_lock"
    /\ calls[t].op \in Readers
    /\ ReadLockOf(calls[t].op) = NONE
    /\ calls' = [calls EXCEPT
                   ![t].result = IF calls[t].op = "active_pool" /\ activeDb = NONE
                                 THEN "err_no_active" ELSE "ok",
                   ![t].pc = "done"]
    /\ UNCHANGED <<activeDb, activeId, registry, globalDb, pools, locks,
                   wsDisk, regFile, nextId>>
    /\ UNCHANGED legacyVars
    /\ UNCHANGED startupVars

\* A fresh installation before its first start, with a frame for every
\* caller the application will have.
InitConcurrent ==
    /\ activeDb = NONE
    /\ activeId = NONE
    /\ registry = DefaultRegistry
    /\ globalDb = GlobalPool
    /\ pools = [p \in Pools |-> ClosedPool]
    /\ locks = [active |-> NONE, id |-> NONE, registry |-> NONE]
    /\ wsDisk = [i \in Ids |-> AbsentDir]
    /\ regFile = AbsentFile
    /\ tmpFile = AbsentFile
    /\ calls = [t \in Callers |-> IdleFrame]
    /\ nextId = 1
    /\ legacy = [db |-> FALSE, backup |-> FALSE]
    /\ globalSettings = FALSE
    /\ legacyRows = NoLegacyRows
    /\ globalRows = EmptyTables
    /\ rootExtra = [n \in OtherNames |-> AbsentEntry]
    /\ boot = BootRecord("down")

\* One stretch of a running call of caller t, between two awaits.
StepOf(t) ==
    \/ SwitchTake(t)
    \/ SwitchCleanup(t)
    \/ SwitchResolve(t)
    \/ SwitchOpen(t)
    \/ SwitchMigrate(t)
    \/ SwitchInstall(t)
    \/ SwitchSetId(t)
    \/ SwitchSave(t)
    \/ CreateFiles(t)
    \/ CreateRegister(t)
    \/ CloseTake(t)
    \/ CloseCleanup(t)
    \/ CloseSetId(t)
    \/ ReadLocked(t)

\* The frames are taken in their order: the callers are alike, so the call
\* that starts as the k-th stands for any caller's.
NextFrame(t) == \A u \in Callers : u < t => calls[u].pc # "idle"

\* The application is started on a fresh installation; once the startup has
\* returned Ok every caller makes one call on the manager, at any time, so
\* that the calls overlap in every way; a call that has returned stays in
\* its frame.  The name given to create_workspace plays no part in how the
\* calls overlap: the callers give one name.
NextConcurrent ==
    \/ BootInit
    \/ \E t \in Callers :
         \/ NextFrame(t) /\ BootDecide(t)
         \/ BootCreated(t)
         \/ BootSwitched(t)
         \/ boot.pc = "up" /\ NextFrame(t)
              /\ \E id \in Ids : StartSwitch(t, id)
         \/ boot.pc = "up" /\ NextFrame(t) /\ StartCreate(t, "Work")
         \/ boot.pc = "up" /\ NextFrame(t) /\ StartClose(t)
         \/ boot.pc = "up" /\ NextFrame(t)
              /\ \E op \in Readers : StartRead(t, op)
         \/ SwitchTake(t)
         \/ SwitchCleanup(t)
         \/ SwitchResolve(t)
         \/ SwitchOpen(t)
         \/ SwitchMigrate(t)
         \/ SwitchInstall(t)
         \/ SwitchSetId(t)
         \/ SwitchSave(t)
         \/ CreateFiles(t)
         \/ CreateRegister(t)
         \/ CloseTake(t)
         \/ CloseCleanup(t)
         \/ CloseSetId(t)
         \/ ReadLocked(t)

SpecConcurrent == InitConcurrent /\ [][NextConcurrent]_vars

\* The same under fair scheduling and terminating I/O: the runtime polls
\* every task that can go on, and every await on a pool or on a lock that
\* is free completes.
SpecConcurrentFair ==
    /\ InitConcurrent
    /\ [][NextConcurrent]_vars
    /\ \A t \in Callers : WF_vars(StepOf(t))

\* Every caller holds a create_workspace or switch_workspace call that has
\* returned Ok, and the calls overlapped.
AllReturnedOk ==
    \A t \in Callers :
        /\ calls[t].pc = "done"
        /\ calls[t].result = "ok"
        /\ calls[t].op \in {"create", "switch"}

\* The number of entries of a registry with the given id.
EntriesOf(reg, id) ==
    Cardinality({k \in 1..Len(reg.workspaces) : reg.workspaces[k].id = id})

\* C32: overlapping create_workspace calls, and a create_workspace that
\* overlaps a switch_workspace, lose no registry update: once all of them
\* have returned Ok, the in-memory registry and workspaces.json hold one
\* entry for every created id, every entry that was there before, and the
\* last_active a switch wrote.
C32_NoLostRegistryUpdate ==
    (AllReturnedOk /\ \E t \in Callers : calls[t].op = "create")
    => /\ regFile.st = "valid"
       /\ regFile.reg = registry
       /\ \A t \in Callers :
            /\ calls[t].op = "create" => EntriesOf(registry, calls[t].ws) = 1
            /\ \A k \in 1..Len(calls[t].pre.registry.workspaces) :
                 EntriesOf(registry, calls[t].pre.registry.workspaces[k].id) = 1
       /\ (\E t \in Callers : calls[t].op = "switch")
          => \E t \in Callers :
               calls[t].op = "switch" /\ registry.last_active = calls[t].ws

\* A create_workspace and a switch_workspace that overlapped on a registry
\* that already had an entry have both returned Ok.
C32_Witness ==
    /\ AllReturnedOk
    /\ \E t, u \in Callers :
         /\ calls[t].op = "create"
         /\ calls[u].op = "switch"
         /\ calls[t].pre.registry.workspaces # <<>>
         /\ calls[u].ws # calls[t].ws

\* C33: no interleaving of overlapping switch_workspace, create_workspace,
\* close_active_workspace, active_pool, active_workspace_id, list_workspaces
\* and last_active_id calls deadlocks on the three locks: under fair
\* scheduling every call that was started returns: from some point on no
\* caller is inside a call (a call that has returned stays in its frame).
C33_EveryCallReturns ==
    <>[](\A t \in Callers : calls[t].pc \in {"idle", "done"})

\* A writer holds the active-pool lock across its cleanup await while
\* another caller waits for that lock.
C33_Witness ==
    \E t, u \in Callers :
        /\ t # u
        /\ locks.active = t
        /\ calls[t].pc \in {"sw_cleanup", "cl_cleanup", "cl_setid"}
        /\ \/ calls[u].pc \in {"sw_take", "cl_take", "sw_install"}
           \/ calls[u].pc = "rd_lock" /\ calls[u].op = "active_pool"

====
